---- MODULE Spec2Model ----
(***************************************************************************)
(* Model of the PrestaShop SEO rewriter (src/prestashop_seo_rewriter.py).  *)
(*                                                                         *)
(* A Python str is a sequence of one-character strings.  The fixed text of *)
(* the prompt template is carried as multi-character elements, which no    *)
(* single character of a field content or of a price prefix can equal.     *)
(***************************************************************************)
EXTENDS Integers, Sequences, FiniteSets, TLC

VARIABLES results, events, raised, runs, arg, ret, env, session

vars == <<results, events, raised, runs, arg, ret, env, session>>

(***************************************************************************)
(* Bounds of the model.                                                    *)
(***************************************************************************)
MaxRuns == 2

(***************************************************************************)
(* Python string primitives.                                               *)
(***************************************************************************)
IsSpace(c) == c \in {" ", "\n", "\t"}

IsDigitOrComma(c) == c \in {"0", "1", "2", "3", "4", "5", "6", "7", "8", "9", ","}

UpperToLower ==
  [c \in {"A", "B", "C", "D", "E", "F", "G", "H", "I", "J", "K", "L", "M", "N",
          "O", "P", "Q", "R", "S", "T", "U", "V", "W", "X", "Y", "Z", "É"} |->
     CASE c = "A" -> "a" [] c = "B" -> "b" [] c = "C" -> "c" [] c = "D" -> "d"
       [] c = "E" -> "e" [] c = "F" -> "f" [] c = "G" -> "g" [] c = "H" -> "h"
       [] c = "I" -> "i" [] c = "J" -> "j" [] c = "K" -> "k" [] c = "L" -> "l"
       [] c = "M" -> "m" [] c = "N" -> "n" [] c = "O" -> "o" [] c = "P" -> "p"
       [] c = "Q" -> "q" [] c = "R" -> "r" [] c = "S" -> "s" [] c = "T" -> "t"
       [] c = "U" -> "u" [] c = "V" -> "v" [] c = "W" -> "w" [] c = "X" -> "x"
       [] c = "Y" -> "y" [] c = "Z" -> "z" [] c = "É" -> "é"]

\* str.lower()
Lower(s) ==
  [i \in 1..Len(s) |-> IF s[i] \in DOMAIN UpperToLower THEN UpperToLower[s[i]] ELSE s[i]]

\* s[i-1:].startswith(pat), with i counted from 1
MatchAt(s, i, pat) ==
  /\ i >= 1
  /\ i + Len(pat) - 1 <= Len(s)
  /\ \A k \in 1..Len(pat) : s[i + k - 1] = pat[k]

\* pat in s
Contains(s, pat) == \E i \in 1..(Len(s) - Len(pat) + 1) : MatchAt(s, i, pat)

RECURSIVE Find(_, _, _)
\* s.find(pat, from) counted from 1; 0 when pat does not occur at or after from
Find(s, pat, from) ==
  IF from + Len(pat) - 1 > Len(s) THEN 0
  ELSE IF MatchAt(s, from, pat) THEN from
  ELSE Find(s, pat, from + 1)

\* s.endswith(pat)
EndsWith(s, pat) == Len(s) >= Len(pat) /\ MatchAt(s, Len(s) - Len(pat) + 1, pat)

RECURSIVE FirstNonSpace(_, _)
FirstNonSpace(s, i) ==
  IF i <= Len(s) /\ IsSpace(s[i]) THEN FirstNonSpace(s, i + 1) ELSE i

RECURSIVE LastNonSpace(_, _)
LastNonSpace(s, i) ==
  IF i >= 1 /\ IsSpace(s[i]) THEN LastNonSpace(s, i - 1) ELSE i

\* s.strip()
Strip(s) == SubSeq(s, FirstNonSpace(s, 1), LastNonSpace(s, Len(s)))

\* len(s.split()): the number of maximal runs of non-whitespace characters
WordCount(s) ==
  Cardinality({i \in 1..Len(s) : ~IsSpace(s[i]) /\ (i = 1 \/ IsSpace(s[i - 1]))})

RECURSIVE SplitFrom(_, _, _)
SplitFrom(s, sep, start) ==
  LET j == Find(s, sep, start)
  IN  IF j = 0 THEN <<SubSeq(s, start, Len(s))>>
      ELSE <<SubSeq(s, start, j - 1)>> \o SplitFrom(s, sep, j + Len(sep))

\* s.split(sep)
Split(s, sep) == SplitFrom(s, sep, 1)

RECURSIVE Join(_, _)
\* sep.join(parts)
Join(parts, sep) ==
  IF parts = <<>> THEN <<>>
  ELSE IF Len(parts) = 1 THEN parts[1]
  ELSE parts[1] \o sep \o Join(Tail(parts), sep)

RECURSIVE CountFrom(_, _, _)
CountFrom(s, pat, start) ==
  LET j == Find(s, pat, start)
  IN  IF j = 0 THEN 0 ELSE 1 + CountFrom(s, pat, j + Len(pat))

\* len(re.findall(pat, s, re.IGNORECASE)) for a literal lower-case pat
CountIgnoreCase(s, pat) == CountFrom(Lower(s), pat, 1)

\* the end of the match of <[^>]+> starting at i, 0 when there is none
TagEnd(s, i) ==
  IF i + 2 <= Len(s) /\ s[i] = "<" /\ s[i + 1] # ">"
  THEN Find(s, <<">">>, i + 2)
  ELSE 0

\* bool(re.search(r'<[^>]+>', s))
HasTag(s) == \E i \in 1..Len(s) : TagEnd(s, i) # 0

RECURSIVE StripTagsFrom(_, _)
StripTagsFrom(s, i) ==
  IF i > Len(s) THEN <<>>
  ELSE IF TagEnd(s, i) # 0 THEN StripTagsFrom(s, TagEnd(s, i) + 1)
  ELSE <<s[i]>> \o StripTagsFrom(s, i + 1)

\* re.sub(r'<[^>]+>', '', s)
StripTags(s) == StripTagsFrom(s, 1)

RECURSIVE SkipSpace(_, _)
\* the first index at or after i that holds no whitespace: the end of \s*
SkipSpace(s, i) ==
  IF i <= Len(s) /\ IsSpace(s[i]) THEN SkipSpace(s, i + 1) ELSE i

RECURSIVE SkipDigits(_, _)
\* the first index at or after i that holds no digit or comma: the end of [\d,]*
SkipDigits(s, i) ==
  IF i <= Len(s) /\ IsDigitOrComma(s[i]) THEN SkipDigits(s, i + 1) ELSE i

(***************************************************************************)
(* Literals of the source.                                                 *)
(***************************************************************************)
BrandPhrase ==
  <<"L", "e", " ", "V", "a", "p", "o", "t", "e", "u", "r", " ",
    "D", "i", "s", "c", "o", "u", "n", "t">>

BrandPhraseLower ==
  <<"l", "e", " ", "v", "a", "p", "o", "t", "e", "u", "r", " ",
    "d", "i", "s", "c", "o", "u", "n", "t">>

\* the backquote character is written "BACKQUOTE"
Fence == <<"BACKQUOTE", "BACKQUOTE", "BACKQUOTE">>

SentenceSep == <<".", " ">>

\* the floor of the rewrite step on the trimmed length
MinRewriteLen == 10

\* the gate of the item processor on the trimmed length
MinFieldLen == 5

\* sentences per paragraph block
SentencesPerParagraph == 3

\* item names are cut to this many characters
MaxNameLen == 100

None == "None"

PyBool(b) == IF b THEN "True" ELSE "False"

\* the empty dict {}
EmptyDict == [k \in {} |-> 0]

PrixWord == <<"P", "r", "i", "x">>

\* re.match(r'(Prix\s*:\s*[\d,]+\s*€\s*\|\s*)', content).group(1), <<>> when there
\* is no match.  The character classes and the literals that follow them are
\* disjoint, so the greedy match never backtracks.
PriceMatch(content) ==
  LET p1 == SkipSpace(content, Len(PrixWord) + 1)
      p2 == SkipSpace(content, p1 + 1)
      p3 == SkipDigits(content, p2)
      p4 == SkipSpace(content, p3)
      p5 == SkipSpace(content, p4 + 1)
      p6 == SkipSpace(content, p5 + 1)
  IN  IF /\ MatchAt(content, 1, PrixWord)
         /\ p1 <= Len(content) /\ content[p1] = ":"
         /\ p3 > p2
         /\ p4 <= Len(content) /\ content[p4] = "€"
         /\ p5 <= Len(content) /\ content[p5] = "|"
      THEN SubSeq(content, 1, p6 - 1)
      ELSE <<>>

\* length_targets.get(field_type, '100-200 mots'), given whether a price prefix
\* was extracted
TargetLength(field_type, has_price) ==
  CASE field_type = "Description courte" -> "50-100 mots"
    [] field_type = "Description" -> "200-400 mots"
    [] field_type = "Meta description" ->
         IF has_price THEN "100-120 caractères" ELSE "140-150 caractères"
    [] field_type = "Meta titre" -> "50-60 caractères"
    [] OTHER -> "100-200 mots"

\* fixed text of the prompt
ContentHeading == "CONTENU À RÉÉCRIRE (sans le prix si présent) :"

BrandInstruction ==
  "IMPORTANT : Si le texte contient \"Le Vapoteur Discount\" - CONSERVE EXACTEMENT cette mention avec cette orthographe."

PriceInstructionHead == "TRÈS IMPORTANT : Le texte commence par \""

PriceInstructionTail ==
  "\" - NE PAS l'inclure dans ta réécriture, je l'ajouterai moi-même."

MissionHeading == "MISSION : Réécrire ce contenu en respectant STRICTEMENT : ..."

\* the user message: the f-string of the prompt, its fixed text as elements
BuildPrompt(content, field_type, item_name, item_type, has_brand, price_prefix) ==
  <<"Tu es un expert SEO ET un spécialiste de la conformité ... PRODUIT : ">>
  \o item_name \o <<"TYPE : ", item_type, "CHAMP : ", field_type,
      "LONGUEUR CIBLE : ", TargetLength(field_type, price_prefix # <<>>),
      ContentHeading>>
  \o content
  \o (IF has_brand THEN <<BrandInstruction>> ELSE <<>>)
  \o (IF price_prefix # <<>>
      THEN <<PriceInstructionHead>> \o price_prefix \o <<PriceInstructionTail>>
      ELSE <<>>)
  \o <<MissionHeading,
       "Fournis UNIQUEMENT le texte réécrit, sans le prix, sans commentaires.">>

\* count_keywords
count_keywords(text) ==
  [e_liquide |-> CountIgnoreCase(text, <<"e", "-", "l", "i", "q", "u", "i", "d", "e">>),
   vapotage |-> CountIgnoreCase(text, <<"v", "a", "p", "o", "t", "a", "g", "e">>),
   cigarette_electronique |->
     CountIgnoreCase(text, <<"c", "i", "g", "a", "r", "e", "t", "t", "e", " ",
                             "é", "l", "e", "c", "t", "r", "o", "n", "i", "q", "u", "e">>),
   vape |-> CountIgnoreCase(text, <<"v", "a", "p", "e">>),
   nicotine |-> CountIgnoreCase(text, <<"n", "i", "c", "o", "t", "i", "n", "e">>)]

RECURSIVE CleanLinesOpenOnly(_, _)
\* mutant of CleanLines: only the line that opens a block is dropped, the line
\* that closes it is kept
CleanLinesOpenOnly(lines, in_code_block) ==
  IF lines = <<>> THEN <<>>
  ELSE IF Contains(lines[1], Fence) /\ ~in_code_block
  THEN CleanLinesOpenOnly(Tail(lines), TRUE)
  ELSE IF Contains(lines[1], Fence)
  THEN <<lines[1]>> \o CleanLinesOpenOnly(Tail(lines), FALSE)
  ELSE IF ~in_code_block THEN <<lines[1]>> \o CleanLinesOpenOnly(Tail(lines), in_code_block)
  ELSE CleanLinesOpenOnly(Tail(lines), in_code_block)

RECURSIVE CleanLines(_, _)
\* the loop over the lines of a fenced answer: a line holding the fence toggles
\* in_code_block and is dropped, any other line is kept outside a block
CleanLines(lines, in_code_block) ==
  IF lines = <<>> THEN <<>>
  ELSE IF Contains(lines[1], Fence) THEN CleanLines(Tail(lines), ~in_code_block)
  ELSE IF ~in_code_block THEN <<lines[1]>> \o CleanLines(Tail(lines), in_code_block)
  ELSE CleanLines(Tail(lines), in_code_block)

\* the fence-stripping step
StripFences(text) ==
  IF Contains(text, Fence) THEN Strip(Join(CleanLines(Split(text, <<"\n">>), FALSE), <<"\n">>))
  ELSE text

RECURSIVE WrapParagraphsUnclosed(_, _, _)
\* mutant of WrapParagraphs: the last block is closed only when it is full
WrapParagraphsUnclosed(paragraphs, i, current_p) ==
  IF i > Len(paragraphs) THEN <<>>
  ELSE IF i % SentencesPerParagraph = 0
  THEN <<<<"<", "p", ">">>
         \o Join(Append(current_p,
                        paragraphs[i] \o (IF EndsWith(paragraphs[i], <<".">>)
                                          THEN <<>> ELSE <<".">>)), <<" ">>)
         \o <<"<", "/", "p", ">">>>>
       \o WrapParagraphsUnclosed(paragraphs, i + 1, <<>>)
  ELSE WrapParagraphsUnclosed(paragraphs, i + 1,
         Append(current_p,
                paragraphs[i] \o (IF EndsWith(paragraphs[i], <<".">>)
                                  THEN <<>> ELSE <<".">>)))

RECURSIVE WrapParagraphs(_, _, _)
\* the loop over the sentences: each sentence gets its period back, and a block
\* is closed after every third sentence and after the last one
WrapParagraphs(paragraphs, i, current_p) ==
  IF i > Len(paragraphs) THEN <<>>
  ELSE LET sentence == paragraphs[i]
           cur == Append(current_p,
                         sentence \o (IF EndsWith(sentence, <<".">>) THEN <<>> ELSE <<".">>))
       IN  IF i % SentencesPerParagraph = 0 \/ i = Len(paragraphs)
           THEN <<<<"<", "p", ">">> \o Join(cur, <<" ">>) \o <<"<", "/", "p", ">">>>>
                \o WrapParagraphs(paragraphs, i + 1, <<>>)
           ELSE WrapParagraphs(paragraphs, i + 1, cur)

\* the paragraph markup step for the long-form fields
AddParagraphs(field_type, text) ==
  IF field_type \in {"Description courte", "Description"} /\ ~Contains(text, <<"<">>)
  THEN LET paragraphs == Split(text, SentenceSep)
       IN  IF Len(paragraphs) > SentencesPerParagraph
           THEN Join(WrapParagraphs(paragraphs, 1, <<>>), <<"\n">>)
           ELSE <<"<", "p", ">">> \o text \o <<"<", "/", "p", ">">>
  ELSE text

(***************************************************************************)
(* rewrite_content_with_seo.  response is the outcome of the one generation*)
(* call: [ok |-> FALSE] when the call or the reading of its answer raises, *)
(* [ok |-> TRUE, text |-> t] when it answers t.  The value returned is the *)
(* pair (content, stats) with the messages sent to the generation API.     *)
(***************************************************************************)
\* mutant of BrandPreserved: the phrase is looked for in any case
BrandPreservedAnyCase(has_vapoteur_discount, rewritten_content) ==
  IF has_vapoteur_discount
  THEN PyBool(Contains(Lower(rewritten_content), BrandPhraseLower))
  ELSE None

\* 'Le Vapoteur Discount' in rewritten_content if has_vapoteur_discount else None
BrandPreserved(has_vapoteur_discount, rewritten_content) ==
  IF has_vapoteur_discount THEN PyBool(Contains(rewritten_content, BrandPhrase))
  ELSE None

\* mutant of Reattach: the prefix is not put back
ReattachDropped(price_prefix, rewritten_content) == rewritten_content

\* if price_prefix: rewritten_content = price_prefix + rewritten_content
Reattach(price_prefix, rewritten_content) == price_prefix \o rewritten_content

\* mutant of BelowFloor: only the empty content is below the floor
BelowFloorEmptyOnly(content0) == content0 = <<>>

\* not content or len(content.strip()) < 10
BelowFloor(content0) == content0 = <<>> \/ Len(Strip(content0)) < MinRewriteLen

\* the stats of a successful rewrite
RewriteStats(original, rewritten_content, has_vapoteur_discount, price_prefix) ==
  [original_length |-> Len(original),
   new_length |-> Len(rewritten_content),
   original_word_count |-> WordCount(original),
   new_word_count |-> WordCount(rewritten_content),
   html_preserved |-> HasTag(rewritten_content),
   keywords_integrated |-> count_keywords(rewritten_content),
   price_preserved |-> price_prefix # <<>>,
   brand_preserved |-> BrandPreserved(has_vapoteur_discount, rewritten_content)]

\* the try block once the answer has been post-processed into rewritten_content
RewriteDone(content, price_prefix, has_vapoteur_discount, prompt, rewritten_content) ==
  [content |-> rewritten_content,
   stats |-> RewriteStats(IF price_prefix # <<>> THEN content \o price_prefix ELSE content,
                          rewritten_content, has_vapoteur_discount, price_prefix),
   sent |-> <<prompt>>]

\* the try block and its except clause, the prompt being built: the answer is
\* trimmed, its fences stripped, the price put back and the paragraphs added
RewriteCall(content, field_type, price_prefix, has_vapoteur_discount, response, prompt) ==
  IF response.ok
  THEN RewriteDone(content, price_prefix, has_vapoteur_discount, prompt,
                   AddParagraphs(field_type,
                                 Reattach(price_prefix,
                                          StripFences(Strip(response.text)))))
  ELSE [content |-> IF price_prefix # <<>> THEN price_prefix \o content ELSE content,
        stats |-> EmptyDict,
        sent |-> <<prompt>>]

\* the rewrite step once the price prefix is known: the prefix is cut off the
\* content and the rest trimmed
RewritePriced(content0, field_type, item_name, item_type, response, has_vapoteur_discount, price_prefix, content) ==
  RewriteCall(content, field_type, price_prefix, has_vapoteur_discount, response,
              BuildPrompt(content, field_type, item_name, item_type,
                          has_vapoteur_discount, price_prefix))

\* mutant of CutPrefix: the prefix stays in the content
CutPrefixKept(content0, price_prefix) == content0

\* content[len(price_prefix):].strip() when a prefix was matched
CutPrefix(content0, price_prefix) ==
  IF price_prefix # <<>>
  THEN Strip(SubSeq(content0, Len(price_prefix) + 1, Len(content0)))
  ELSE content0

RewriteMatched(content0, field_type, item_name, item_type, response, has_vapoteur_discount, price_prefix) ==
  RewritePriced(content0, field_type, item_name, item_type, response,
                has_vapoteur_discount, price_prefix, CutPrefix(content0, price_prefix))

rewrite_content_with_seo(content0, field_type, item_name, item_type, response) ==
  IF BelowFloor(content0)
  THEN [content |-> content0, stats |-> EmptyDict, sent |-> <<>>]
  ELSE RewriteMatched(content0, field_type, item_name, item_type, response,
                      \/ Contains(content0, BrandPhrase)
                      \/ Contains(Lower(content0), BrandPhraseLower),
                      IF field_type = "Meta description" THEN PriceMatch(content0)
                      ELSE <<>>)

(***************************************************************************)
(* extract_and_preserve_html.  The markup is read by the HTML parser of    *)
(* BeautifulSoup: parse_ok tells whether it raised.  The text is the text  *)
(* nodes outside tags, trimmed and joined by one space.                    *)
(***************************************************************************)
RECURSIVE TextNodes(_, _, _)
\* the text between the tags of s from index i on, cur being the node so far
TextNodes(s, i, cur) ==
  IF i > Len(s) THEN <<cur>>
  ELSE IF TagEnd(s, i) # 0 THEN <<cur>> \o TextNodes(s, TagEnd(s, i) + 1, <<>>)
  ELSE TextNodes(s, i + 1, Append(cur, s[i]))

RECURSIVE NonEmptyStripped(_)
NonEmptyStripped(nodes) ==
  IF nodes = <<>> THEN <<>>
  ELSE IF Strip(nodes[1]) = <<>> THEN NonEmptyStripped(Tail(nodes))
  ELSE <<Strip(nodes[1])>> \o NonEmptyStripped(Tail(nodes))

\* soup.get_text(separator=' ', strip=True)
GetText(s) == Join(NonEmptyStripped(TextNodes(s, 1, <<>>)), <<" ">>)

\* the number of opening tags <name ...> or <name> in s
CountOpenTag(s, name) ==
  Cardinality({i \in 1..Len(s) :
                 /\ TagEnd(s, i) # 0
                 /\ MatchAt(s, i + 1, name)
                 /\ s[i + 1 + Len(name)] \in {" ", ">", "/"}})

\* mutant of OnParseError: the structure of a parse error is empty
OnParseErrorEmpty(html_content) == [text |-> html_content, structure |-> EmptyDict]

\* the except clause of extract_and_preserve_html
OnParseError(html_content) ==
  [text |-> html_content, structure |-> [original_html |-> html_content]]

extract_and_preserve_html(html_content, parse_ok) ==
  IF html_content = <<>>
  THEN [text |-> <<>>, structure |-> EmptyDict]
  ELSE IF parse_ok
  THEN [text |-> GetText(html_content),
        structure |->
          [images |-> CountOpenTag(html_content, <<"i", "m", "g">>),
           links |-> CountOpenTag(html_content, <<"a">>),
           has_lists |-> \/ CountOpenTag(html_content, <<"u", "l">>) > 0
                         \/ CountOpenTag(html_content, <<"o", "l">>) > 0,
           has_headings |-> \E n \in {"1", "2", "3", "4", "5", "6"} :
                              CountOpenTag(html_content, <<"h", n>>) > 0,
           original_html |-> html_content]]
  ELSE OnParseError(html_content)

(***************************************************************************)
(* Values of the catalog payload: the JSON values a record of the commerce *)
(* API can hold.  A dict is a function from its keys.                      *)
(***************************************************************************)
PyStr(s) == [t |-> "str", v |-> s]

PyNone == [t |-> "none"]

PyList(l) == [t |-> "list", v |-> l]

PyDict(d) == [t |-> "dict", v |-> d]

\* bool(x)
Truthy(x) ==
  CASE x.t = "str" -> x.v # <<>>
    [] x.t = "list" -> x.v # <<>>
    [] x.t = "dict" -> DOMAIN x.v # {}
    [] OTHER -> FALSE

\* the keys of the payload, in the order the payload lists them, and their text
KeyOrder == <<"id", "language", "value">>

KeyChars(k) ==
  CASE k = "id" -> <<"i", "d">>
    [] k = "language" -> <<"l", "a", "n", "g", "u", "a", "g", "e">>
    [] k = "value" -> <<"v", "a", "l", "u", "e">>

RECURSIVE Repr(_)
RECURSIVE ReprItems(_, _)
\* repr(x), which str(x) gives for a dict or a list
Repr(x) ==
  CASE x.t = "str" -> <<"'">> \o x.v \o <<"'">>
    [] x.t = "none" -> <<"N", "o", "n", "e">>
    [] x.t = "list" ->
         <<"[">> \o Join([i \in 1..Len(x.v) |-> Repr(x.v[i])], <<",", " ">>) \o <<"]">>
    [] x.t = "dict" -> <<"{">> \o Join(ReprItems(x.v, 1), <<",", " ">>) \o <<"}">>

ReprItems(d, i) ==
  IF i > Len(KeyOrder) THEN <<>>
  ELSE IF KeyOrder[i] \in DOMAIN d
  THEN <<<<"'">> \o KeyChars(KeyOrder[i]) \o <<"'", ":", " ">> \o Repr(d[KeyOrder[i]])>>
       \o ReprItems(d, i + 1)
  ELSE ReprItems(d, i + 1)

\* a call that returns value v, and a call that raises
Returned(v) == [raised |-> FALSE, value |-> v]

Raised == [raised |-> TRUE]

\* d.get('value', default) on a dict d
GetValue(d, default) == IF "value" \in DOMAIN d THEN d["value"] ELSE default

\* extract_content: what it returns, or that it raises
extract_content(field_data) ==
  CASE field_data.t = "dict" ->
         IF "language" \in DOMAIN field_data.v
         THEN LET languages == field_data.v["language"]
              IN  CASE languages.t = "list" ->
                         IF languages.v = <<>> THEN Returned(PyStr(<<>>))
                         ELSE IF languages.v[1].t = "dict"
                         THEN Returned(GetValue(languages.v[1].v, PyStr(<<>>)))
                         ELSE Raised
                    [] languages.t = "dict" -> Returned(GetValue(languages.v, PyStr(<<>>)))
                    [] OTHER -> Returned(PyStr(<<>>))
         ELSE Returned(GetValue(field_data.v, PyStr(Repr(field_data))))
    [] field_data.t = "list" ->
         IF field_data.v # <<>> THEN Returned(field_data.v[1]) ELSE Returned(PyStr(<<>>))
    [] field_data.t = "str" -> Returned(field_data)
    [] OTHER -> Returned(PyStr(<<>>))

DigitChar == <<"0", "1", "2", "3", "4", "5", "6", "7", "8", "9">>

\* str(n) for a small identifier
IntStr(n) ==
  IF n < 10 THEN <<DigitChar[n + 1]>>
  ELSE <<DigitChar[(n \div 10) + 1], DigitChar[(n % 10) + 1]>>

\* the generation outcome of the n-th call of a run: the outcomes the API gives
\* are listed by oracle and taken in turn
ResponseAt(oracle, n) == oracle[((n - 1) % Len(oracle)) + 1]

\* s[:MaxNameLen]
Truncate(s) == SubSeq(s, 1, IF Len(s) < MaxNameLen THEN Len(s) ELSE MaxNameLen)

\* mutant of FieldsToSkip: no field is skipped
FieldsToSkipNone(item_type) == {}

\* fields_to_skip of process_item
FieldsToSkip(item_type) == IF item_type = "product" THEN {"name"} ELSE {}

\* sum(stats['keywords_integrated'].values())
SumKeywords(k) == k.e_liquide + k.vapotage + k.cigarette_electronique + k.vape + k.nicotine

\* mutant of RecordRewrite: fields_rewritten is raised only with the keywords
RecordRewriteUncounted(result, field, field_name, original_content, rewritten) ==
  [result EXCEPT
     !.has_been_rewritten = TRUE,
     !.seo_stats.fields_rewritten =
        IF "keywords_integrated" \in DOMAIN rewritten.stats
           /\ SumKeywords(rewritten.stats.keywords_integrated) > 0
        THEN @ + 1
        ELSE @,
     !.seo_stats.total_keywords_added =
        IF "keywords_integrated" \in DOMAIN rewritten.stats
        THEN @ + SumKeywords(rewritten.stats.keywords_integrated)
        ELSE @,
     !.rewrites = Append(@,
        [field |-> field,
         field_name |-> field_name,
         original_content |-> original_content,
         rewritten_content |-> rewritten.content,
         original_text_only |-> StripTags(original_content),
         rewritten_text_only |-> StripTags(rewritten.content),
         stats |-> rewritten.stats,
         keywords |-> IF "keywords_integrated" \in DOMAIN rewritten.stats
                      THEN rewritten.stats.keywords_integrated
                      ELSE EmptyDict])]

\* the body of the loop of process_item for one rewritten field: result with
\* the record of the field appended and the counters raised
RecordRewrite(result, field, field_name, original_content, rewritten) ==
  [result EXCEPT
     !.has_been_rewritten = TRUE,
     !.seo_stats.fields_rewritten = @ + 1,
     !.seo_stats.total_keywords_added =
        IF "keywords_integrated" \in DOMAIN rewritten.stats
        THEN @ + SumKeywords(rewritten.stats.keywords_integrated)
        ELSE @,
     !.rewrites = Append(@,
        [field |-> field,
         field_name |-> field_name,
         original_content |-> original_content,
         rewritten_content |-> rewritten.content,
         original_text_only |-> StripTags(original_content),
         rewritten_text_only |-> StripTags(rewritten.content),
         stats |-> rewritten.stats,
         keywords |-> IF "keywords_integrated" \in DOMAIN rewritten.stats
                      THEN rewritten.stats.keywords_integrated
                      ELSE EmptyDict])]

\* the generation calls a field gave rise to, as the run records them
Issued(item, item_type, field, field_name, original_content, rewritten) ==
  [i \in 1..Len(rewritten.sent) |->
     [item_type |-> item_type, id |-> item["id"], field |-> field,
      field_name |-> field_name, content |-> original_content,
      message |-> rewritten.sent[i],
      returned |-> [content |-> rewritten.content, stats |-> rewritten.stats]]]

RECURSIVE ProcessFields(_, _, _, _, _, _, _, _)
RECURSIVE FieldExtracted(_, _, _, _, _, _, _, _, _)
RECURSIVE FieldRewritten(_, _, _, _, _, _, _, _, _, _)
\* the loop of process_item over fields_to_process (pairs <<field, field_name>> in
\* the order of the mapping) from the n-th generation call of the run on, result
\* and the calls made so far being given: the result, or that the loop raised
ProcessFields(item, item_type, item_name, fields, oracle, n, result, calls) ==
  IF fields = <<>> THEN [raised |-> FALSE, result |-> result, calls |-> calls]
  ELSE IF fields[1][1] \in FieldsToSkip(item_type) \/ fields[1][1] \notin DOMAIN item
  THEN ProcessFields(item, item_type, item_name, Tail(fields), oracle, n, result, calls)
  ELSE FieldExtracted(item, item_type, item_name, fields, oracle, n, result, calls,
                      extract_content(item[fields[1][1]]))

\* the body of the loop once extract_content has ended as extracted: the gate on
\* the content, then the rewrite step
FieldExtracted(item, item_type, item_name, fields, oracle, n, result, calls, extracted) ==
  IF extracted.raised
  THEN [raised |-> TRUE, result |-> result, calls |-> calls]
  ELSE IF ~Truthy(extracted.value)
  THEN ProcessFields(item, item_type, item_name, Tail(fields), oracle, n, result, calls)
  ELSE IF extracted.value.t # "str"
  THEN [raised |-> TRUE, result |-> result, calls |-> calls]
  ELSE IF Len(Strip(extracted.value.v)) <= MinFieldLen
  THEN ProcessFields(item, item_type, item_name, Tail(fields), oracle, n, result, calls)
  ELSE FieldRewritten(item, item_type, item_name, fields, oracle, n, result, calls,
                      extracted.value.v,
                      rewrite_content_with_seo(extracted.value.v, fields[1][2], item_name,
                                               item_type, ResponseAt(oracle, n)))

\* mutant of FieldRewritten: a record is kept whatever the rewrite step returned
FieldRewrittenAlways(item, item_type, item_name, fields, oracle, n, result, calls, original_content, rewritten) ==
  ProcessFields(item, item_type, item_name, Tail(fields), oracle,
                n + Len(rewritten.sent),
                RecordRewrite(result, fields[1][1], fields[1][2],
                              original_content, rewritten),
                calls \o Issued(item, item_type, fields[1][1], fields[1][2],
                                original_content, rewritten))

\* the body of the loop once the rewrite step has returned rewritten: a record
\* is kept when the content returned differs from the original
FieldRewritten(item, item_type, item_name, fields, oracle, n, result, calls, original_content, rewritten) ==
  ProcessFields(item, item_type, item_name, Tail(fields), oracle,
                n + Len(rewritten.sent),
                IF rewritten.content # original_content
                THEN RecordRewrite(result, fields[1][1], fields[1][2],
                                   original_content, rewritten)
                ELSE result,
                calls \o Issued(item, item_type, fields[1][1], fields[1][2],
                                original_content, rewritten))

\* process_item once the name has been extracted
NameExtracted(item, item_type, fields_to_process, oracle, n, name_content) ==
  IF name_content.raised \/ name_content.value.t # "str"
  THEN [raised |-> TRUE, calls |-> <<>>]
  ELSE ProcessFields(item, item_type,
                     IF StripTags(name_content.value.v) # <<>>
                     THEN Truncate(StripTags(name_content.value.v))
                     ELSE <<item_type, " ">> \o IntStr(item["id"]),
                     fields_to_process, oracle, n,
                     [id |-> item["id"],
                      name |-> IF StripTags(name_content.value.v) # <<>>
                               THEN Truncate(StripTags(name_content.value.v))
                               ELSE <<item_type, " ">> \o IntStr(item["id"]),
                      type |-> item_type,
                      has_been_rewritten |-> FALSE,
                      rewrites |-> <<>>,
                      seo_stats |-> [fields_rewritten |-> 0,
                                     total_keywords_added |-> 0,
                                     html_structure_improved |-> 0]],
                     <<>>)

\* process_item, the generation calls of the run being numbered from n: the
\* ItemResult and the generation calls issued, or that it raised
process_item(item, item_type, fields_to_process, oracle, n) ==
  NameExtracted(item, item_type, fields_to_process, oracle, n,
                extract_content(IF "name" \in DOMAIN item THEN item["name"]
                                ELSE PyStr(<<>>)))

(***************************************************************************)
(* The results aggregate after __init__ (the date and the url are left     *)
(* out: no operation reads them).                                          *)
(***************************************************************************)
InitResults ==
  [metadata |-> [total_products_analyzed |-> 0,
                 total_categories_analyzed |-> 0,
                 total_manufacturers_analyzed |-> 0,
                 items_rewritten |-> 0,
                 seo_improvements |-> 0],
   products |-> <<>>,
   categories |-> <<>>,
   manufacturers |-> <<>>,
   errors |-> <<>>]

\* st.session_state after the initialisation of the dashboard
\* (src/streamlit_app.py).  results is <<>> for None and <<r>> for the
\* aggregate r; validations lists the ValidationRecords in the order of the
\* dict; specific_ids is <<>> for None and nb_to_process 0 for None.
InitSession ==
  [results |-> <<>>,
   validations |-> <<>>,
   authenticated |-> FALSE,
   processing |-> FALSE,
   specific_ids |-> <<>>,
   nb_to_process |-> 5,
   element_type |-> "Produits"]

(***************************************************************************)
(* Inputs: field contents, generated texts and field labels.               *)
(***************************************************************************)
TxtLiquide ==
  <<"L", "i", "q", "u", "i", "d", "e", " ", "1", "0", "m", "l", " ",
    "f", "r", "u", "i", "t", "s">>

TxtSix == <<"a", "b", "c", "d", "e", "f">>

TxtNine == <<"a", "b", "c", "d", "e", "f", "g", "h", "i">>

TxtOffre == <<"O", "f", "f", "r", "e", " ">>

TxtFactuel ==
  <<"T", "e", "x", "t", "e", " ", "f", "a", "c", "t", "u", "e", "l", " ",
    "c", "o", "u", "r", "t", ".">>

TxtSept ==
  <<"U", "n", ".", " ", "D", "e", "u", "x", ".", " ", "T", "r", "o", "i", "s", ".", " ",
    "Q", "u", "a", "t", "r", "e", ".", " ", "C", "i", "n", "q", ".", " ",
    "S", "i", "x", ".", " ", "S", "e", "p", "t", ".">>

TxtBalise ==
  <<"<", "p", ">", "T", "e", "x", "t", "e", " ", "b", "a", "l", "i", "s", "e",
    "<", "/", "p", ">">>

TxtVoici == <<"V", "o", "i", "c", "i">>

PrixLong ==
  <<"P", "r", "i", "x", " ", ":", " ", "9", ",", "9", "0", " ", "€", " ", "|", " ">>

PrixShort == <<"P", "r", "i", "x", ":", "5", "€", "|">>

\* contents with no price prefix
PlainContents ==
  {<<>>, TxtSix, TxtNine, <<" ", " ">> \o TxtNine \o <<" ", " ">>,
   TxtLiquide, TxtLiquide \o <<" ">>, TxtFactuel,
   TxtOffre \o BrandPhrase, TxtOffre \o BrandPhraseLower, TxtBalise}

\* contents that start with a price prefix
PricedContents ==
  {PrixShort, PrixLong,
   PrixLong \o TxtLiquide, PrixLong \o TxtLiquide \o <<" ">>,
   PrixShort \o TxtLiquide, PrixShort \o PrixShort \o TxtLiquide,
   PrixLong \o BrandPhrase}

Contents == PlainContents \cup PricedContents

MaxSentences == 8

\* an answer of n sentences, with or without its last period
SentenceText(n, dot) ==
  Join([i \in 1..n |-> <<"S">> \o IntStr(i)], SentenceSep)
  \o (IF dot THEN <<".">> ELSE <<>>)

SentenceTexts == {SentenceText(n, dot) : n \in 1..MaxSentences, dot \in BOOLEAN}

\* texts the generation call answers
GeneratedTexts ==
  SentenceTexts \cup
  {TxtFactuel, <<" ">> \o TxtLiquide \o <<"\n">>, TxtSept, TxtBalise,
   TxtOffre \o BrandPhrase, TxtOffre \o BrandPhraseLower,
   TxtVoici \o <<"\n">> \o Fence \o <<"\n">> \o TxtBalise \o <<"\n">> \o Fence,
   PrixShort \o TxtFactuel}

\* outcomes of the generation call
Responses == {[ok |-> FALSE]} \cup {[ok |-> TRUE, text |-> t] : t \in GeneratedTexts}

\* field labels the batch driver passes to the rewrite step
FieldTypes ==
  {"Description courte", "Description", "Meta description", "Meta titre",
   "Nom de la catégorie"}

TxtKitAspire ==
  <<"K", "i", "t", " ", "A", "s", "p", "i", "r", "e", " ", "2", "0", "0", "0">>

(***************************************************************************)
(* SpecRewrite: the rewrite step applied to one field content.             *)
(***************************************************************************)
InitRewrite ==
  /\ results = InitResults
  /\ events = <<>>
  /\ raised = FALSE
  /\ runs = 0
  /\ env = [cb |-> FALSE]
  /\ arg \in [op : {"rewrite_content_with_seo"}, content : Contents,
               field_type : FieldTypes, response : Responses]
  /\ ret = [done |-> FALSE]
  /\ session = InitSession

Rewrite ==
  /\ arg.op = "rewrite_content_with_seo"
  /\ ~ret.done
  /\ ret' = [done |-> TRUE,
             out |-> rewrite_content_with_seo(arg.content, arg.field_type, TxtKitAspire,
                                              "product", arg.response)]
  /\ UNCHANGED <<results, events, raised, runs, arg, env, session>>

NextRewrite == Rewrite

SpecRewrite == InitRewrite /\ [][NextRewrite]_vars

(***************************************************************************)
(* The field mappings of the batch driver, in the order of the dict.       *)
(***************************************************************************)
ProductFields ==
  <<<<"name", "Nom du produit">>,
    <<"description_short", "Description courte">>,
    <<"meta_title", "Meta titre">>,
    <<"meta_description", "Meta description">>>>

CategoryFields ==
  <<<<"name", "Nom de la catégorie">>,
    <<"description", "Description">>,
    <<"additional_description", "Informations complémentaires">>,
    <<"meta_title", "Balise titre">>,
    <<"meta_description", "Meta description">>>>

ManufacturerFields ==
  <<<<"name", "Nom">>,
    <<"short_description", "Résumé">>,
    <<"description", "Description">>,
    <<"meta_title", "Balise titre">>,
    <<"meta_description", "Meta description">>>>

FieldMappings == {ProductFields, CategoryFields, ManufacturerFields}

ItemTypes == {"product", "category", "manufacturer"}

(***************************************************************************)
(* Inputs of the item processor.                                           *)
(***************************************************************************)
TxtKit == <<"K", "i", "t">>

LangEntry(s) == PyDict([id |-> PyStr(<<"1">>), value |-> PyStr(s)])

\* the shapes a field value of the payload takes: a string, null, a list or a
\* mapping
FieldShapes ==
  <<PyStr(TxtLiquide),
    PyNone,
    PyList(<<>>),
    PyList(<<PyStr(TxtLiquide)>>),
    PyList(<<LangEntry(TxtLiquide)>>),
    PyDict([language |-> PyList(<<LangEntry(TxtLiquide)>>)]),
    PyDict([language |-> PyList(<<>>)]),
    PyDict([language |-> PyList(<<PyStr(TxtLiquide)>>)]),
    PyDict([language |-> LangEntry(TxtLiquide)]),
    PyDict([language |-> PyStr(TxtLiquide)]),
    PyDict([value |-> PyStr(TxtLiquide)]),
    PyDict([value |-> PyNone]),
    PyDict([id |-> PyStr(<<"1">>)])>>

ItemContents ==
  {TxtSix, TxtNine, TxtLiquide, TxtFactuel, TxtOffre \o BrandPhrase,
   PrixLong \o TxtLiquide, PrixLong \o TxtLiquide \o <<" ">>, PrixShort \o TxtFactuel}

ItemNames == <<PyStr(TxtKitAspire), PyStr(TxtKit), PyStr(<<>>)>>

Failure == [ok |-> FALSE]

Answer(t) == [ok |-> TRUE, text |-> t]

\* the outcomes of the generation calls of a run, taken in turn
Oracles ==
  {<<Failure>>, <<Answer(TxtFactuel)>>, <<Answer(TxtFactuel), Failure>>,
   <<Failure, Answer(TxtOffre \o BrandPhrase)>>}

\* an item with a name and one more field
ItemWith(id, name, field, value) ==
  [k \in {"id", "name", field} |->
     IF k = "id" THEN id ELSE IF k = field THEN value ELSE name]

FieldKeys ==
  {"description_short", "description", "short_description", "meta_title",
   "meta_description"}

ItemArgs ==
  {[op |-> "process_item", item_type |-> ty, fields |-> fs, oracle |-> o,
    item |-> ItemWith(7, ItemNames[n], f, PyStr(c))] :
     ty \in ItemTypes, fs \in FieldMappings, o \in Oracles,
     n \in 1..Len(ItemNames), f \in FieldKeys, c \in ItemContents}
  \cup
  {[op |-> "process_item", item_type |-> ty, fields |-> fs, oracle |-> <<Answer(TxtFactuel)>>,
    item |-> ItemWith(7, PyStr(TxtKit), f, FieldShapes[i])] :
     ty \in ItemTypes, fs \in {ProductFields},
     f \in {"name", "meta_description"}, i \in 1..Len(FieldShapes)}

(***************************************************************************)
(* SpecItem: the item processor applied to one item.                       *)
(***************************************************************************)
InitItem ==
  /\ results = InitResults
  /\ events = <<>>
  /\ raised = FALSE
  /\ runs = 0
  /\ env = [cb |-> FALSE]
  /\ arg \in ItemArgs
  /\ ret = [done |-> FALSE]
  /\ session = InitSession

ProcessItem ==
  /\ arg.op = "process_item"
  /\ ~ret.done
  /\ ret' = [done |-> TRUE,
             out |-> process_item(arg.item, arg.item_type, arg.fields, arg.oracle, 1)]
  /\ UNCHANGED <<results, events, raised, runs, arg, env, session>>

NextItem == ProcessItem

SpecItem == InitItem /\ [][NextItem]_vars

(***************************************************************************)
(* SpecSteps: the rewrite step or the item processor, applied once.        *)
(***************************************************************************)
InitSteps == InitRewrite \/ InitItem

NextSteps == Rewrite \/ ProcessItem

SpecSteps == InitSteps /\ [][NextSteps]_vars

(***************************************************************************)
(* SpecFence: the fence-stripping step applied to a generated text, then   *)
(* to its own output.                                                      *)
(***************************************************************************)
MaxLines == 4

\* lines a generated text is made of: fences bare, tagged and inside a line,
\* one and two backquotes, text, blank and empty lines
FenceLineKinds ==
  {Fence, Fence \o <<"h", "t", "m", "l">>, <<"a", " ">> \o Fence,
   <<"BACKQUOTE", "BACKQUOTE">>, <<"BACKQUOTE">>,
   <<"a", "b">>, <<" ", "c">>, <<" ">>, <<>>}

FenceLines == UNION {[1..n -> FenceLineKinds] : n \in 1..MaxLines}

\* the generated texts, as line 168 hands them to the fence-stripping step
FencedTexts == {Strip(Join(lines, <<"\n">>)) : lines \in FenceLines}

InitFence ==
  /\ results = InitResults
  /\ events = <<>>
  /\ raised = FALSE
  /\ runs = 0
  /\ env = [cb |-> FALSE]
  /\ arg \in [op : {"strip_fences"}, text : FencedTexts]
  /\ ret = [done |-> FALSE, applied |-> 0, once |-> <<>>, twice |-> <<>>]
  /\ session = InitSession

\* the step applied to the generated text
FenceStrip ==
  /\ arg.op = "strip_fences"
  /\ ret.applied = 0
  /\ ret' = [ret EXCEPT !.applied = 1, !.once = StripFences(arg.text)]
  /\ UNCHANGED <<results, events, raised, runs, arg, env, session>>

\* the step applied to its own output
FenceStripAgain ==
  /\ arg.op = "strip_fences"
  /\ ret.applied = 1
  /\ ret' = [ret EXCEPT !.applied = 2, !.done = TRUE, !.twice = StripFences(ret.once)]
  /\ UNCHANGED <<results, events, raised, runs, arg, env, session>>

NextFence == FenceStrip \/ FenceStripAgain

SpecFence == InitFence /\ [][NextFence]_vars

(***************************************************************************)
(* SpecHtml: the HTML splitter applied to one markup string.               *)
(***************************************************************************)
HtmlParts ==
  {<<>>, TxtKit, <<" ">>, <<"<", "p", ">">>, <<"<", "/", "p", ">">>,
   <<"<", "i", "m", "g", " ", "s", "r", "c", "=", "x", ">">>, <<"<", "a", ">">>,
   <<"<", "u", "l", ">">>, <<"<", "h", "2", ">">>, <<"<">>}

\* markup strings, the empty one and malformed ones among them
HtmlInputs == {a \o b : a \in HtmlParts, b \in HtmlParts}

InitHtml ==
  /\ results = InitResults
  /\ events = <<>>
  /\ raised = FALSE
  /\ runs = 0
  /\ env = [cb |-> FALSE]
  /\ arg \in [op : {"extract_and_preserve_html"}, html_content : HtmlInputs,
               parse_ok : BOOLEAN]
  /\ ret = [done |-> FALSE]
  /\ session = InitSession

ExtractHtml ==
  /\ arg.op = "extract_and_preserve_html"
  /\ ~ret.done
  /\ ret' = [done |-> TRUE,
             out |-> extract_and_preserve_html(arg.html_content, arg.parse_ok)]
  /\ UNCHANGED <<results, events, raised, runs, arg, env, session>>

NextHtml == ExtractHtml

SpecHtml == InitHtml /\ [][NextHtml]_vars

(***************************************************************************)
(* The commerce platform.  Catalog lists, per resource, the records the    *)
(* API serves, in the order of its list answer.  A request ends "ok",      *)
(* "status" (an answer other than 200) or "exc" (requests raises).         *)
(***************************************************************************)
Resources == {"products", "categories", "manufacturers"}

Catalog ==
  [products |->
     <<[id |-> 1, name |-> PyStr(TxtKitAspire),
        description_short |-> PyStr(TxtLiquide),
        meta_description |-> PyStr(PrixLong \o TxtLiquide \o <<" ">>)],
       [id |-> 2, name |-> PyStr(TxtKit), meta_title |-> PyStr(TxtNine)]>>,
   categories |->
     <<[id |-> 1, name |-> PyDict([language |-> PyList(<<LangEntry(TxtKitAspire)>>)]),
        description |-> PyStr(TxtFactuel)],
       [id |-> 2, name |-> PyStr(TxtKit), meta_title |-> PyStr(TxtFactuel)]>>,
   manufacturers |->
     <<[id |-> 1, name |-> PyStr(TxtKit), description |-> PyStr(TxtOffre \o BrandPhrase)],
       [id |-> 2, name |-> PyList(<<LangEntry(TxtKit)>>),
        description |-> PyStr(TxtLiquide)]>>]

\* how the detail request of a record ends
DetailOutcome(e, resource, id) ==
  IF id = e.bad THEN e.mode
  ELSE IF \E i \in 1..Len(Catalog[resource]) : Catalog[resource][i].id = id THEN "ok"
  ELSE "status"

\* detail_response.json().get(<resource>, {}) of an "ok" request
Record(resource, id) ==
  LET i == CHOOSE j \in 1..Len(Catalog[resource]) : Catalog[resource][j].id = id
  IN  Catalog[resource][i]

ItemTypeOf(resource) ==
  CASE resource = "products" -> "product"
    [] resource = "categories" -> "category"
    [] resource = "manufacturers" -> "manufacturer"

FieldsOf(resource) ==
  CASE resource = "products" -> ProductFields
    [] resource = "categories" -> CategoryFields
    [] resource = "manufacturers" -> ManufacturerFields

CounterOf(resource) ==
  CASE resource = "products" -> "total_products_analyzed"
    [] resource = "categories" -> "total_categories_analyzed"
    [] resource = "manufacturers" -> "total_manufacturers_analyzed"

RECURSIVE FetchListed(_, _, _, _, _)
\* the detail loop of get_products, get_categories and get_manufacturers over
\* the listed identifiers from the i-th on: the records fetched and the
\* requests made, or that a request raised
FetchListed(e, resource, ids, i, acc) ==
  IF i > Len(ids) THEN acc
  ELSE LET outcome == DetailOutcome(e, resource, ids[i])
           asked == Append(acc.events, [e |-> "get", resource |-> resource, id |-> ids[i]])
       IN  CASE outcome = "exc" -> [items |-> <<>>, events |-> asked]
             [] outcome = "status" ->
                  FetchListed(e, resource, ids, i + 1, [acc EXCEPT !.events = asked])
             [] OTHER ->
                  FetchListed(e, resource, ids, i + 1,
                              [items |-> Append(acc.items, Record(resource, ids[i])),
                               events |-> asked])

\* mutant of get_items: a limit of 0 is sent and applied as any other limit
get_itemsZeroLimit(e, resource, limit) ==
  LET all == [i \in 1..Len(Catalog[resource]) |-> Catalog[resource][i].id]
      listed == IF limit < Len(all) THEN SubSeq(all, 1, limit) ELSE all
      ids == IF limit < Len(listed) THEN SubSeq(listed, 1, limit) ELSE listed
      asked == <<[e |-> "list", resource |-> resource, limit |-> limit]>>
  IN  IF e.list # "ok" THEN [items |-> <<>>, events |-> asked]
      ELSE FetchListed(e, resource, ids, 1, [items |-> <<>>, events |-> asked])

\* get_products, get_categories, get_manufacturers.  limit 0 stands for None:
\* "if limit" reads both alike.  The platform honours the limit parameter.
get_items(e, resource, limit) ==
  LET all == [i \in 1..Len(Catalog[resource]) |-> Catalog[resource][i].id]
      listed == IF limit # 0 /\ limit < Len(all) THEN SubSeq(all, 1, limit) ELSE all
      ids == IF limit # 0 /\ limit < Len(listed) THEN SubSeq(listed, 1, limit) ELSE listed
      asked == <<[e |-> "list", resource |-> resource, limit |-> limit]>>
  IN  IF e.list # "ok" THEN [items |-> <<>>, events |-> asked]
      ELSE FetchListed(e, resource, ids, 1, [items |-> <<>>, events |-> asked])

RECURSIVE FetchByIdsRetry(_, _, _, _, _)
\* mutant of FetchByIds: a request that fails is made a second time
FetchByIdsRetry(e, resource, ids, i, acc) ==
  IF i > Len(ids) THEN acc
  ELSE FetchByIdsRetry(e, resource, ids, i + 1,
         [items |-> IF DetailOutcome(e, resource, ids[i]) = "ok"
                    THEN Append(acc.items, Record(resource, ids[i]))
                    ELSE acc.items,
          events |-> acc.events
                     \o (IF e.cb
                         THEN <<[e |-> "callback", current |-> i, total |-> Len(ids),
                                 message |-> "Récupération", resource |-> resource,
                                 id |-> ids[i]]>>
                         ELSE <<>>)
                     \o <<[e |-> "get", resource |-> resource, id |-> ids[i]]>>
                     \o (IF DetailOutcome(e, resource, ids[i]) = "ok" THEN <<>>
                         ELSE <<[e |-> "get", resource |-> resource, id |-> ids[i]]>>)])

RECURSIVE FetchByIdsAbort(_, _, _, _, _)
\* mutant of FetchByIds: a request that fails ends the retrieval
FetchByIdsAbort(e, resource, ids, i, acc) ==
  IF i > Len(ids) THEN acc
  ELSE IF DetailOutcome(e, resource, ids[i]) # "ok"
  THEN [acc EXCEPT !.events =
          @ \o <<[e |-> "get", resource |-> resource, id |-> ids[i]]>>]
  ELSE FetchByIdsAbort(e, resource, ids, i + 1,
         [items |-> Append(acc.items, Record(resource, ids[i])),
          events |-> acc.events
                     \o <<[e |-> "get", resource |-> resource, id |-> ids[i]]>>])

RECURSIVE FetchByIds(_, _, _, _, _)
\* the retrieval loop of run_with_specific_ids: a request that fails is skipped
FetchByIds(e, resource, ids, i, acc) ==
  IF i > Len(ids) THEN acc
  ELSE LET outcome == DetailOutcome(e, resource, ids[i])
           told == IF e.cb
                   THEN <<[e |-> "callback", current |-> i, total |-> Len(ids),
                           message |-> "Récupération", resource |-> resource,
                           id |-> ids[i]]>>
                   ELSE <<>>
           asked == acc.events \o told
                    \o <<[e |-> "get", resource |-> resource, id |-> ids[i]]>>
       IN  FetchByIds(e, resource, ids, i + 1,
                      [items |-> IF outcome = "ok"
                                 THEN Append(acc.items, Record(resource, ids[i]))
                                 ELSE acc.items,
                       events |-> asked])

\* what processing the i-th item adds to the events of the run
Work(e, resource, items, i, st, out) ==
  (IF e.cb /\ resource = "products"
   THEN <<[e |-> "callback", current |-> i, total |-> Len(items),
           message |-> IF st.by_ids THEN "Traitement produit" ELSE "Produit",
           resource |-> resource, id |-> items[i].id]>>
   ELSE <<>>)
  \o <<[e |-> "process_item", resource |-> resource, id |-> items[i].id,
        position |-> i, total |-> Len(items)]>>
  \o [k \in 1..Len(out.calls) |->
        [e |-> "generate", resource |-> resource, id |-> items[i].id,
         field |-> out.calls[k].field]]

\* mutant of Store: the result is appended and the count left alone
StoreUncounted(res, resource, result) ==
  [res EXCEPT ![resource] = Append(@, result)]

\* mutant of Store: an item that was not rewritten is reported in errors
StoreReported(res, resource, result) ==
  [res EXCEPT ![resource] = Append(@, result),
              !.metadata.items_rewritten =
                 IF result.has_been_rewritten THEN @ + 1 ELSE @,
              !.errors = IF result.has_been_rewritten THEN @ ELSE Append(@, result.name)]

\* results.append(result) and the count of the rewritten items
Store(res, resource, result) ==
  [res EXCEPT ![resource] = Append(@, result),
              !.metadata.items_rewritten =
                 IF result.has_been_rewritten THEN @ + 1 ELSE @]

RECURSIVE ProcessLoop(_, _, _, _, _)
RECURSIVE ItemProcessed(_, _, _, _, _, _)
\* the processing loop of one resource over items from the i-th on, st being
\* the run so far: the results aggregate, the events, the number of the next
\* generation call, whether the run raised and the entry mode.  Only products
\* have the progress callback and the pause.
ProcessLoop(e, resource, items, i, st) ==
  IF i > Len(items) THEN st
  ELSE ItemProcessed(e, resource, items, i, st,
                     process_item(items[i], ItemTypeOf(resource), FieldsOf(resource),
                                  e.oracle, st.n))

\* the body of the loop once process_item has ended as out
ItemProcessed(e, resource, items, i, st, out) ==
  IF out.raised
  THEN [st EXCEPT !.raised = TRUE, !.events = @ \o Work(e, resource, items, i, st, out)]
  ELSE ProcessLoop(e, resource, items, i + 1,
                   [st EXCEPT !.results = Store(@, resource, out.result),
                              !.events = @ \o Work(e, resource, items, i, st, out)
                                           \o (IF resource = "products"
                                               THEN <<[e |-> "sleep"]>> ELSE <<>>),
                              !.n = @ + Len(out.calls)])

\* mutant of ProcessResource: with a progress callback nothing is processed
ProcessResourceTold(e, resource, fetched, st) ==
  IF st.raised THEN st
  ELSE IF fetched.items = <<>> \/ e.cb THEN [st EXCEPT !.events = @ \o fetched.events]
  ELSE ProcessLoop(e, resource, fetched.items, 1,
                   [st EXCEPT !.events = @ \o fetched.events,
                              !.results.metadata[CounterOf(resource)] = Len(fetched.items)])

\* one "if items:" block of a run: the counter is set and the items processed
ProcessResource(e, resource, fetched, st) ==
  IF st.raised THEN st
  ELSE IF fetched.items = <<>> THEN [st EXCEPT !.events = @ \o fetched.events]
  ELSE ProcessLoop(e, resource, fetched.items, 1,
                   [st EXCEPT !.events = @ \o fetched.events,
                              !.results.metadata[CounterOf(resource)] = Len(fetched.items)])

\* type_map.get(element_type, "1") of run_with_params, as the resources chosen
ChoiceOf(element_type) ==
  CASE element_type = "Produits" -> {"products"}
    [] element_type = "Catégories" -> {"categories"}
    [] element_type = "Marques" -> {"manufacturers"}
    [] element_type = "Tout" -> {"products", "categories", "manufacturers"}
    [] OTHER -> {"products"}

\* one "if choice in [...]" block of run_with_params
CountSection(e, resource, element_type, nb_items, st) ==
  IF st.raised \/ resource \notin ChoiceOf(element_type) THEN st
  ELSE ProcessResource(e, resource, get_items(e, resource, nb_items), st)

\* run_with_params on a rewriter whose results aggregate is res
run_with_params(e, res, element_type, nb_items) ==
  LET st0 == [results |-> res, events |-> <<>>, n |-> 1, raised |-> FALSE,
              by_ids |-> FALSE]
      st1 == CountSection(e, "products", element_type, nb_items, st0)
      st2 == CountSection(e, "categories", element_type, nb_items, st1)
  IN  CountSection(e, "manufacturers", element_type, nb_items, st2)

\* mutant of ResourceOf: a type the map does not hold falls to its last entry
ResourceOfLast(element_type) ==
  CASE element_type = "Produits" -> "products"
    [] element_type = "Catégories" -> "categories"
    [] OTHER -> "manufacturers"

\* type_map.get(element_type, "products") of run_with_specific_ids
ResourceOf(element_type) ==
  CASE element_type = "Produits" -> "products"
    [] element_type = "Catégories" -> "categories"
    [] element_type = "Marques" -> "manufacturers"
    [] OTHER -> "products"

\* run_with_specific_ids on a rewriter whose results aggregate is res
run_with_specific_ids(e, res, element_type, specific_ids) ==
  LET resource == ResourceOf(element_type)
      st0 == [results |-> res, events |-> <<>>, n |-> 1, raised |-> FALSE,
              by_ids |-> TRUE]
  IN  ProcessResource(e, resource,
                      FetchByIds(e, resource, specific_ids, 1,
                                 [items |-> <<>>, events |-> <<>>]),
                      st0)

(***************************************************************************)
(* Spec: one rewriter and the runs made on it.  env is the world the runs  *)
(* meet: whether a progress callback is passed, how the requests to the    *)
(* platform end and what the generation calls answer.                      *)
(***************************************************************************)
Worlds ==
  {[cb |-> TRUE, list |-> "ok", bad |-> 0, mode |-> "status",
    oracle |-> <<Answer(TxtFactuel), Failure>>],
   [cb |-> FALSE, list |-> "ok", bad |-> 2, mode |-> "status",
    oracle |-> <<Failure, Answer(TxtOffre \o BrandPhrase)>>],
   [cb |-> TRUE, list |-> "ok", bad |-> 1, mode |-> "exc",
    oracle |-> <<Answer(TxtFactuel)>>]}

CountCalls ==
  {<<"Produits", 0>>, <<"Produits", 1>>, <<"Catégories", 0>>, <<"Marques", 1>>,
   <<"Tout", 0>>}

IdCalls ==
  {<<"Produits", <<2, 1>>>>, <<"Catégories", <<1, 3>>>>, <<"Marques", <<1>>>>}

Init ==
  /\ results = InitResults
  /\ events = <<>>
  /\ raised = FALSE
  /\ runs = 0
  /\ env \in Worlds
  /\ arg = [op |-> "__init__"]
  /\ ret = [done |-> TRUE]
  /\ session = InitSession

\* the state after a run that ended as st
Ran(st, call) ==
  /\ results' = st.results
  /\ events' = st.events
  /\ raised' = st.raised
  /\ arg' = call
  /\ ret' = [done |-> TRUE]
  /\ UNCHANGED <<env, session>>

RunWithParams ==
  /\ runs < MaxRuns
  /\ runs' = runs + 1
  /\ \E c \in CountCalls :
       Ran(run_with_params(env, results, c[1], c[2]),
           [op |-> "run_with_params", element_type |-> c[1], nb_items |-> c[2]])

RunWithSpecificIds ==
  /\ runs < MaxRuns
  /\ runs' = runs + 1
  /\ \E c \in IdCalls :
       Ran(run_with_specific_ids(env, results, c[1], c[2]),
           [op |-> "run_with_specific_ids", element_type |-> c[1], specific_ids |-> c[2]])

Next == RunWithParams \/ RunWithSpecificIds

Spec == Init /\ [][Next]_vars

(***************************************************************************)
(* SpecRun: one run on a fresh rewriter, over every call and world below.  *)
(***************************************************************************)
ElementTypes == {"Produits", "Catégories", "Marques", "Tout", "Accessoires"}

NetCases ==
  {[list |-> "ok", bad |-> 0, mode |-> "status"],
   [list |-> "ok", bad |-> 1, mode |-> "status"],
   [list |-> "ok", bad |-> 1, mode |-> "exc"],
   [list |-> "ok", bad |-> 2, mode |-> "exc"],
   [list |-> "status", bad |-> 0, mode |-> "status"],
   [list |-> "exc", bad |-> 0, mode |-> "status"]}

RunOracles ==
  {<<Failure>>, <<Answer(TxtFactuel), Failure>>, <<Answer(TxtOffre \o BrandPhrase)>>}

RunWorlds ==
  {[cb |-> c, list |-> n.list, bad |-> n.bad, mode |-> n.mode, oracle |-> o] :
     c \in BOOLEAN, n \in NetCases, o \in RunOracles}

RunCalls ==
  {[op |-> "run_with_params", element_type |-> t, nb_items |-> k] :
     t \in ElementTypes, k \in 0..2}
  \cup
  {[op |-> "run_with_specific_ids", element_type |-> t, specific_ids |-> ids] :
     t \in ElementTypes, ids \in {<<1>>, <<2, 1>>, <<1, 3, 2>>, <<1, 1>>}}

InitRun ==
  /\ results = InitResults
  /\ events = <<>>
  /\ raised = FALSE
  /\ runs = 0
  /\ env \in RunWorlds
  /\ arg \in RunCalls
  /\ ret = [done |-> FALSE]
  /\ session = InitSession

RunByCount ==
  /\ arg.op = "run_with_params"
  /\ ~ret.done
  /\ runs' = runs + 1
  /\ Ran(run_with_params(env, results, arg.element_type, arg.nb_items), arg)

RunByIds ==
  /\ arg.op = "run_with_specific_ids"
  /\ ~ret.done
  /\ runs' = runs + 1
  /\ Ran(run_with_specific_ids(env, results, arg.element_type, arg.specific_ids), arg)

NextRun == RunByCount \/ RunByIds

SpecRun == InitRun /\ [][NextRun]_vars

(***************************************************************************)
(* parse_id_input of the dashboard (src/streamlit_app.py).  A warning of   *)
(* the page is kept as the part it names.                                  *)
(***************************************************************************)
\* id_input.replace(' ', '')
RemoveSpaces(s) == SelectSeq(s, LAMBDA c : c # " ")

\* the value of a decimal digit, -1 for any other character
DigitValue(c) ==
  IF \E d \in 1..10 : DigitChar[d] = c
  THEN (CHOOSE d \in 1..10 : DigitChar[d] = c) - 1
  ELSE -1

RECURSIVE DigitsValue(_, _)
\* the number the digits of s write after acc, -1 when a character is no digit
DigitsValue(s, acc) ==
  IF s = <<>> THEN acc
  ELSE IF DigitValue(s[1]) < 0 THEN -1
  ELSE DigitsValue(Tail(s), 10 * acc + DigitValue(s[1]))

\* int(s) for s over digits, letters, "+" and "-": the number, or -1 when int
\* raises ValueError.  No part reaches int with a "-" that it accepts.
ParseInt(s) ==
  IF s = <<>> THEN -1
  ELSE IF s[1] = "+" THEN (IF Len(s) = 1 THEN -1 ELSE DigitsValue(Tail(s), 0))
  ELSE DigitsValue(s, 0)

\* list(range(start, end + 1))
RangeList(start, end) == [k \in 1..(end - start + 1) |-> start + k - 1]

\* the range branch of the loop once the part is split on "-"
RangePart(part, pieces, acc) ==
  IF Len(pieces) # 2 \/ ParseInt(pieces[1]) < 0 \/ ParseInt(pieces[Len(pieces)]) < 0
  THEN [acc EXCEPT !.warnings = Append(@, [message |-> "Format invalide", part |-> part])]
  ELSE [acc EXCEPT !.ids = @ \o RangeList(ParseInt(pieces[1]), ParseInt(pieces[2]))]

\* mutant of ParsePart: a part that is no integer is dropped without a warning
ParsePartSilent(part, acc) ==
  IF Contains(part, <<"-">>) THEN RangePart(part, Split(part, <<"-">>), acc)
  ELSE IF ParseInt(part) < 0 THEN acc
  ELSE [acc EXCEPT !.ids = Append(@, ParseInt(part))]

\* the body of the loop for one part
ParsePart(part, acc) ==
  IF Contains(part, <<"-">>) THEN RangePart(part, Split(part, <<"-">>), acc)
  ELSE IF ParseInt(part) < 0
  THEN [acc EXCEPT !.warnings = Append(@, [message |-> "ID invalide", part |-> part])]
  ELSE [acc EXCEPT !.ids = Append(@, ParseInt(part))]

RECURSIVE ParseParts(_, _)
\* the loop over the parts
ParseParts(parts, acc) ==
  IF parts = <<>> THEN acc
  ELSE ParseParts(Tail(parts), ParsePart(parts[1], acc))

\* parse_id_input up to its return statement: the list ids and the warnings
parse_id_input(id_input) ==
  IF id_input = <<>> THEN [ids |-> <<>>, warnings |-> <<>>]
  ELSE ParseParts(Split(RemoveSpaces(id_input), <<",">>),
                  [ids |-> <<>>, warnings |-> <<>>])

RECURSIVE Orders(_)
\* the lists that hold each member of the set values once
Orders(values) ==
  IF values = {} THEN {<<>>}
  ELSE UNION {{<<x>> \o l : l \in Orders(values \ {x})} : x \in values}

\* mutant of DedupLists: the list is returned as it stands
DedupListsKept(ids) == {ids}

\* list(set(ids)): the lists that hold each value of ids once, the order being
\* that of the hash table
DedupLists(ids) == Orders({ids[i] : i \in 1..Len(ids)})

(***************************************************************************)
(* SpecParse: parse_id_input applied to one text.  The text is written     *)
(* from tokens, each with the identifiers it denotes, and a way of putting *)
(* spaces in.                                                              *)
(***************************************************************************)
Token(text, ok, ids) == [text |-> text, ok |-> ok, ids |-> ids]

Tokens ==
  {Token(<<"2">>, TRUE, {2}),
   Token(<<"4", "3", "0">>, TRUE, {430}),
   Token(<<"4", "2", "4", "-", "4", "2", "6">>, TRUE, {424, 425, 426}),
   Token(<<"2", "-", "2">>, TRUE, {2}),
   Token(<<"3", "-", "1">>, TRUE, {}),
   Token(<<"a">>, FALSE, {}),
   Token(<<>>, FALSE, {}),
   Token(<<"1", "-", "a">>, FALSE, {}),
   Token(<<"1", "-", "2", "-", "3">>, FALSE, {}),
   Token(<<"-", "2">>, FALSE, {})}

MaxTokens == 2

TokenLists == UNION {[1..n -> Tokens] : n \in 0..MaxTokens}

Spacings == {"none", "edges", "everywhere"}

RECURSIVE Spaced(_, _)
\* the text s with spaces put in
Spaced(s, spacing) ==
  CASE spacing = "none" -> s
    [] spacing = "edges" -> <<" ">> \o s \o <<" ">>
    [] OTHER -> IF s = <<>> THEN <<" ">>
                ELSE <<" ", s[1]>> \o Spaced(Tail(s), spacing)

\* the text typed for a list of tokens
Typed(tokens, spacing) ==
  Join([i \in 1..Len(tokens) |-> Spaced(tokens[i].text, spacing)], <<",">>)

InitParse ==
  /\ results = InitResults
  /\ events = <<>>
  /\ raised = FALSE
  /\ runs = 0
  /\ env = [cb |-> FALSE]
  /\ \E tokens \in TokenLists, spacing \in Spacings :
       /\ tokens # <<>> => Typed(tokens, spacing) # <<>>
       /\ arg = [op |-> "parse_id_input", tokens |-> tokens, spacing |-> spacing,
                 id_input |-> IF tokens = <<>> THEN <<>> ELSE Typed(tokens, spacing)]
  /\ ret = [done |-> FALSE]
  /\ session = InitSession

ParseIdInput ==
  /\ arg.op = "parse_id_input"
  /\ ~ret.done
  /\ \E l \in DedupLists(parse_id_input(arg.id_input).ids) :
       ret' = [done |-> TRUE,
               out |-> [ids |-> l, warnings |-> parse_id_input(arg.id_input).warnings]]
  /\ UNCHANGED <<results, events, raised, runs, arg, env, session>>

NextParse == ParseIdInput

SpecParse == InitParse /\ [][NextParse]_vars

(***************************************************************************)
(* The dashboard (src/streamlit_app.py).  session is st.session_state; the *)
(* rewriter variables hold the rewriter of the last run.                   *)
(***************************************************************************)
\* the collection of the results that holds the items of item_type
ItemsOfType(res, item_type) ==
  CASE item_type = "product" -> res.products
    [] item_type = "category" -> res.categories
    [] OTHER -> res.manufacturers

\* the entry of the export for a validation: the first item of its collection
\* that bears its id, none when no item does
ExportEntry(items, validation) ==
  IF \E i \in 1..Len(items) : items[i].id = validation.id
  THEN LET i == CHOOSE j \in 1..Len(items) :
                  /\ items[j].id = validation.id
                  /\ \A k \in 1..(j - 1) : items[k].id # validation.id
       IN  <<[type |-> validation.type, id |-> validation.id,
              name |-> items[i].name, rewrites |-> items[i].rewrites]>>
  ELSE <<>>

RECURSIVE ValidatedItems(_, _)
\* the loop of the export over the validations
ValidatedItems(res, validations) ==
  IF validations = <<>> THEN <<>>
  ELSE ExportEntry(ItemsOfType(res, validations[1].type), validations[1])
       \o ValidatedItems(res, Tail(validations))

\* export_data of the "validated items only" export, without its timestamp
ValidatedExport(s) ==
  [validated_count |-> Len(ValidatedItems(s.results[1], s.validations)),
   items |-> ValidatedItems(s.results[1], s.validations)]

\* the export is offered: results are held and validations is not empty
ExportOffered(s) ==
  s.authenticated /\ ~s.processing /\ s.results # <<>> /\ s.validations # <<>>

\* item_key in st.session_state.validations
IsValidated(s, item_type, id) ==
  \E k \in 1..Len(s.validations) :
    s.validations[k].type = item_type /\ s.validations[k].id = id

AppTypes == {"Produits", "Catégories", "Marques"}

\* the counts the number input is given
AppCounts == {1, 2}

\* the texts typed in the identifier field
AppIdInputs == {<<>>, <<"1">>, <<"1", "-", "2">>}

Validators == {"Ana"}

\* the world a dashboard session meets
AppWorlds ==
  {[cb |-> TRUE, list |-> "ok", bad |-> 0, mode |-> "status",
    oracle |-> <<Answer(TxtFactuel), Failure>>],
   [cb |-> TRUE, list |-> "ok", bad |-> 1, mode |-> "exc",
    oracle |-> <<Answer(TxtFactuel)>>]}

InitApp ==
  /\ results = InitResults
  /\ events = <<>>
  /\ raised = FALSE
  /\ runs = 0
  /\ env \in AppWorlds
  /\ arg = [op |-> "start"]
  /\ ret = [done |-> TRUE]
  /\ session = InitSession

\* the login button with the right password
Login ==
  /\ ~session.authenticated
  /\ session' = [session EXCEPT !.authenticated = TRUE]
  /\ arg' = [op |-> "login"]
  /\ UNCHANGED <<results, events, raised, runs, ret, env>>

\* the logout button
Logout ==
  /\ session.authenticated
  /\ session' = [session EXCEPT !.authenticated = FALSE, !.results = <<>>,
                                !.validations = <<>>]
  /\ arg' = [op |-> "logout"]
  /\ UNCHANGED <<results, events, raised, runs, ret, env>>

\* the launch button in the by-count mode
LaunchByCount ==
  /\ session.authenticated
  /\ ~session.processing
  /\ runs < MaxRuns
  /\ \E t \in AppTypes, n \in AppCounts :
       /\ session' = [session EXCEPT !.processing = TRUE, !.specific_ids = <<>>,
                                     !.nb_to_process = n, !.element_type = t]
       /\ arg' = [op |-> "launch", element_type |-> t, nb_elements |-> n]
  /\ UNCHANGED <<results, events, raised, runs, ret, env>>

\* the launch button in the identifier mode: nothing is launched for a text
\* that gives no identifier
LaunchByIds ==
  /\ session.authenticated
  /\ ~session.processing
  /\ runs < MaxRuns
  /\ \E t \in AppTypes, id_input \in AppIdInputs :
       \E ids \in DedupLists(parse_id_input(id_input).ids) :
         /\ ids # <<>>
         /\ session' = [session EXCEPT !.processing = TRUE, !.specific_ids = ids,
                                       !.nb_to_process = 0, !.element_type = t]
         /\ arg' = [op |-> "launch", element_type |-> t, id_input |-> id_input]
  /\ UNCHANGED <<results, events, raised, runs, ret, env>>

\* the run the processing block makes on a new rewriter
AppRun(s, e) ==
  IF s.specific_ids # <<>>
  THEN run_with_specific_ids(e, InitResults, s.element_type, s.specific_ids)
  ELSE run_with_params(e, InitResults, s.element_type, s.nb_to_process)

\* the processing block once the run has ended as st: the results are stored
\* unless the run raised, and processing is over
Processed(st) ==
  /\ session' = [session EXCEPT !.processing = FALSE,
                                !.results = IF st.raised THEN @ ELSE <<st.results>>]
  /\ results' = st.results
  /\ events' = st.events
  /\ raised' = st.raised

\* the processing block
Process ==
  /\ session.authenticated
  /\ session.processing
  /\ Processed(AppRun(session, env))
  /\ runs' = runs + 1
  /\ arg' = [op |-> "process"]
  /\ UNCHANGED <<ret, env>>

\* the processing block when get_api_keys gives no keys: no rewriter is made
ProcessWithoutKeys ==
  /\ session.authenticated
  /\ session.processing
  /\ session' = [session EXCEPT !.processing = FALSE]
  /\ arg' = [op |-> "process_without_keys"]
  /\ UNCHANGED <<results, events, raised, runs, ret, env>>

\* the validation button of a rewritten item that is not validated yet, a name
\* being given
Validate ==
  /\ session.authenticated
  /\ ~session.processing
  /\ session.results # <<>>
  /\ \E item_type \in ItemTypes, validator_name \in Validators :
       \E i \in 1..Len(ItemsOfType(session.results[1], item_type)) :
         LET item == ItemsOfType(session.results[1], item_type)[i]
         IN  /\ item.has_been_rewritten
             /\ ~IsValidated(session, item_type, item.id)
             /\ session' =
                  [session EXCEPT !.validations =
                     Append(@, [validated |-> TRUE, validator |-> validator_name,
                                id |-> item.id, name |-> item.name,
                                type |-> item_type])]
             /\ arg' = [op |-> "validate", type |-> item_type, id |-> item.id]
  /\ UNCHANGED <<results, events, raised, runs, ret, env>>

\* the reset button of the validation tab
ResetValidations ==
  /\ session.authenticated
  /\ ~session.processing
  /\ session.results # <<>>
  /\ session.validations # <<>>
  /\ session' = [session EXCEPT !.validations = <<>>]
  /\ arg' = [op |-> "reset_validations"]
  /\ UNCHANGED <<results, events, raised, runs, ret, env>>

NextApp ==
  \/ Login
  \/ Logout
  \/ LaunchByCount
  \/ LaunchByIds
  \/ Process
  \/ ProcessWithoutKeys
  \/ Validate
  \/ ResetValidations

SpecApp == InitApp /\ [][NextApp]_vars

\* the script run that follows a launch goes through the processing block
\* whenever the block stays open to it
SpecAppFair == SpecApp /\ WF_vars(ProcessWithoutKeys \/ Process)

(***************************************************************************)
(* Properties.                                                             *)
(***************************************************************************)
\* s begins with pat
StartsWith(s, pat) == MatchAt(s, 1, pat)

\* the place of the fixed text chunk in the message m
ChunkIndex(m, chunk) == CHOOSE i \in 1..Len(m) : m[i] = chunk

\* the fields of the FieldRewriteRecords of an ItemResult
RewrittenFields(result) == {result.rewrites[j].field : j \in 1..Len(result.rewrites)}

\* the fields the generation calls of an item were made for
CalledFields(calls) == {calls[k].field : k \in 1..Len(calls)}

\* a price prefix was extracted from the content given to the rewrite step
PrefixExtracted ==
  /\ arg.op = "rewrite_content_with_seo"
  /\ ret.done
  /\ arg.field_type = "Meta description"
  /\ ~BelowFloor(arg.content)
  /\ PriceMatch(arg.content) # <<>>

\* C1: whenever the generation call for a field fails, the rewrite step returns
\* the original field content with empty stats, the item processor records no
\* FieldRewriteRecord for the field, and the field counts neither towards
\* fields_rewritten nor towards has_been_rewritten.
C1_FailedCallLeavesFieldUnrewritten ==
  (arg.op = "process_item" /\ ret.done /\ ~ret.out.raised) =>
    /\ \A k \in 1..Len(ret.out.calls) :
         ~ResponseAt(arg.oracle, k).ok =>
           /\ ret.out.calls[k].returned.content = ret.out.calls[k].content
           /\ ret.out.calls[k].returned.stats = EmptyDict
           /\ ret.out.calls[k].field \notin RewrittenFields(ret.out.result)
    /\ (\A k \in 1..Len(ret.out.calls) : ~ResponseAt(arg.oracle, k).ok) =>
         /\ ~ret.out.result.has_been_rewritten
         /\ ret.out.result.seo_stats.fields_rewritten = 0

\* C2: for a Meta description content that begins with the price prefix
\* pattern, the content returned by the rewrite step begins with the very prefix
\* matched in the input, whatever the generation call answers and when it fails.
C2_PricePrefixKept ==
  (/\ arg.op = "rewrite_content_with_seo"
   /\ ret.done
   /\ arg.field_type = "Meta description"
   /\ PriceMatch(arg.content) # <<>>) =>
    StartsWith(ret.out.content, PriceMatch(arg.content))

C2_Witness ==
  /\ PrefixExtracted
  /\ arg.content = PrixLong \o TxtLiquide
  /\ arg.response = Answer(PrixShort \o TxtFactuel)
  /\ ret.out.content = PrixLong \o PrixShort \o TxtFactuel

\* C3 as stated: the message passed to the generation API does not contain the
\* extracted price prefix.
C3_PrefixAbsentFromMessage ==
  PrefixExtracted =>
    \A k \in 1..Len(ret.out.sent) :
      ~Contains(ret.out.sent[k], PriceMatch(arg.content))

\* C3, amended: when a price prefix was extracted, the text put under the
\* content heading of the message is the input without its matched prefix,
\* trimmed, and the message quotes the prefix in its instruction not to include
\* the price.
C3_PrefixCutFromContentAndQuoted ==
  PrefixExtracted =>
    /\ Len(ret.out.sent) = 1
    /\ LET m == ret.out.sent[1]
           prefix == PriceMatch(arg.content)
           rest == Strip(SubSeq(arg.content, Len(prefix) + 1, Len(arg.content)))
           c == ChunkIndex(m, ContentHeading)
           q == ChunkIndex(m, PriceInstructionHead)
       IN  /\ SubSeq(m, c + 1, c + Len(rest)) = rest
           /\ m[c + Len(rest) + 1] \in {BrandInstruction, PriceInstructionHead}
           /\ SubSeq(m, q + 1, q + Len(prefix)) = prefix
           /\ m[q + Len(prefix) + 1] = PriceInstructionTail

C3_Witness ==
  /\ PrefixExtracted
  /\ arg.content = PrixShort \o PrixShort \o TxtLiquide
  /\ Len(ret.out.sent) = 1
  /\ Contains(ret.out.sent[1], <<PriceInstructionHead>> \o PrixShort
                               \o <<PriceInstructionTail>>)
  /\ Contains(ret.out.sent[1], <<ContentHeading>> \o PrixShort \o TxtLiquide)

\* C4: a batch run always completes and returns the results aggregate without
\* raising, for every catalog content and every pattern of fetch and generation
\* failures.
C4_RunNeverRaises ==
  (arg.op \in {"run_with_params", "run_with_specific_ids"} /\ ret.done) => ~raised

\* the number of ItemResults of a collection with has_been_rewritten = true
CountRewritten(items) ==
  Cardinality({i \in 1..Len(items) : items[i].has_been_rewritten})

\* C5: after any sequence of runs on one rewriter, metadata.items_rewritten is
\* the number of ItemResults with has_been_rewritten = true over the products,
\* categories and manufacturers collections.
C5_ItemsRewrittenCounted ==
  results.metadata.items_rewritten =
    CountRewritten(results.products) + CountRewritten(results.categories)
    + CountRewritten(results.manufacturers)

C5_Witness ==
  /\ runs >= 2
  /\ results.metadata.items_rewritten >= 2
  /\ \E i \in 1..Len(results.products) : ~results.products[i].has_been_rewritten
  /\ \E i \in 1..Len(results.categories) : results.categories[i].has_been_rewritten

\* C6: for every successful rewrite, brand_preserved is None when the brand
\* phrase is absent from the original content under case-insensitive
\* comparison; otherwise it is true exactly when the phrase in its exact case
\* occurs in the final rewritten text.
C6_BrandPreservedFlag ==
  (arg.op = "rewrite_content_with_seo" /\ ret.done /\ ret.out.stats # EmptyDict) =>
    IF ~Contains(Lower(arg.content), Lower(BrandPhrase))
    THEN ret.out.stats.brand_preserved = None
    ELSE ret.out.stats.brand_preserved = "True"
           <=> Contains(ret.out.content, BrandPhrase)

C6_Witness ==
  /\ arg.op = "rewrite_content_with_seo"
  /\ ret.done
  /\ arg.content = TxtOffre \o BrandPhraseLower
  /\ arg.response = Answer(TxtOffre \o BrandPhraseLower)
  /\ ret.out.stats # EmptyDict
  /\ ret.out.stats.brand_preserved = "False"

\* the fields of the mapping whose content in the item is a string of 6 to 9
\* trimmed characters and which the item processor does not skip
GatedShortFields ==
  {arg.fields[i][1] : i \in
     {j \in 1..Len(arg.fields) :
        /\ arg.fields[j][1] \in DOMAIN arg.item
        /\ arg.fields[j][1] \notin FieldsToSkip(arg.item_type)
        /\ arg.item[arg.fields[j][1]].t = "str"
        /\ Len(Strip(arg.item[arg.fields[j][1]].v)) \in 6..9}}

\* C7: for every content that is empty or of trimmed length below 10 the
\* rewrite step returns the input unchanged with empty stats and issues no
\* generation call; a field of 6 to 9 trimmed characters passes the gate of the
\* item processor and never yields a FieldRewriteRecord.
C7_ShortContentUntouched ==
  /\ (/\ arg.op = "rewrite_content_with_seo"
      /\ ret.done
      /\ (arg.content = <<>> \/ Len(Strip(arg.content)) < 10)) =>
       ret.out = [content |-> arg.content, stats |-> EmptyDict, sent |-> <<>>]
  /\ (arg.op = "process_item" /\ ret.done /\ ~ret.out.raised) =>
       /\ GatedShortFields \cap RewrittenFields(ret.out.result) = {}
       /\ GatedShortFields \cap CalledFields(ret.out.calls) = {}

C7_Witness ==
  /\ arg.op = "process_item"
  /\ ret.done
  /\ arg.item_type = "category"
  /\ arg.fields = CategoryFields
  /\ arg.item["name"] = PyStr(TxtKitAspire)
  /\ "meta_title" \in DOMAIN arg.item
  /\ arg.item["meta_title"] = PyStr(TxtNine)
  /\ arg.oracle = <<Answer(TxtFactuel)>>
  /\ ~ret.out.raised
  /\ RewrittenFields(ret.out.result) = {"name"}
  /\ CalledFields(ret.out.calls) = {"name"}

\* C8: for an item processed with type product no generation call is made for
\* the name field and the ItemResult has no FieldRewriteRecord whose field is
\* name, whatever the field mapping; for a category or a manufacturer the name
\* is processed like any other configured field.
C8_ProductNameNeverRewritten ==
  (arg.op = "process_item" /\ ret.done /\ ~ret.out.raised) =>
    /\ arg.item_type = "product" =>
         /\ "name" \notin CalledFields(ret.out.calls)
         /\ "name" \notin RewrittenFields(ret.out.result)
    /\ (/\ arg.item_type # "product"
        /\ arg.item["name"].t = "str"
        /\ Len(Strip(arg.item["name"].v)) >= 10) =>
         "name" \in CalledFields(ret.out.calls)

C8_Witness ==
  /\ arg.op = "process_item"
  /\ ret.done
  /\ arg.item_type = "product"
  /\ arg.fields = CategoryFields
  /\ arg.item["name"] = PyStr(TxtKitAspire)
  /\ ~ret.out.raised
  /\ CalledFields(ret.out.calls) = {"description"}
  /\ RewrittenFields(ret.out.result) = {"description"}

\* C9 as stated: for every input, the empty string included, the structure
\* returned by the HTML splitter has an original_html entry equal to the input.
C9_OriginalHtmlAlways ==
  (arg.op = "extract_and_preserve_html" /\ ret.done) =>
    /\ "original_html" \in DOMAIN ret.out.structure
    /\ ret.out.structure.original_html = arg.html_content

\* C9, amended: for every non-empty input, malformed markup included, the
\* structure has an original_html entry equal to the input, and on a parse
\* error the input comes back verbatim as the text with a structure holding
\* original_html only; for the empty input the text is empty and the structure
\* has no entry.
C9_OriginalHtmlUnlessEmpty ==
  (arg.op = "extract_and_preserve_html" /\ ret.done) =>
    IF arg.html_content = <<>>
    THEN ret.out = [text |-> <<>>, structure |-> EmptyDict]
    ELSE /\ "original_html" \in DOMAIN ret.out.structure
         /\ ret.out.structure.original_html = arg.html_content
         /\ ~arg.parse_ok =>
              /\ ret.out.text = arg.html_content
              /\ DOMAIN ret.out.structure = {"original_html"}

C9_Witness ==
  /\ arg.op = "extract_and_preserve_html"
  /\ ret.done
  /\ arg.html_content = <<"<", "p", ">", "<">>
  /\ ~arg.parse_ok
  /\ ret.out.text = <<"<", "p", ">", "<">>
  /\ ret.out.structure = [original_html |-> <<"<", "p", ">", "<">>]

\* C10: when a progress callback is supplied, in both entry modes and for all
\* three item types the processing of every item comes after a callback
\* invocation for that item whose current index lies between 1 and the total.
C10_CallbackBeforeEveryItem ==
  (arg.op \in {"run_with_params", "run_with_specific_ids"} /\ ret.done /\ env.cb) =>
    \A k \in 1..Len(events) :
      events[k].e = "process_item" =>
        \E j \in 1..(k - 1) :
          /\ events[j].e = "callback"
          /\ events[j].resource = events[k].resource
          /\ events[j].id = events[k].id
          /\ 1 <= events[j].current
          /\ events[j].current <= events[j].total

\* a run of the batch driver has ended
RunEnded == arg.op \in {"run_with_params", "run_with_specific_ids"} /\ ret.done

\* the requests to the platform and the generation calls among the events
Calls(evs) == SelectSeq(evs, LAMBDA ev : ev.e \in {"list", "get", "generate"})

\* the run of the state made again on a fresh rewriter, the progress callback
\* being passed if it was not and left out if it was
Twin ==
  IF arg.op = "run_with_params"
  THEN run_with_params([env EXCEPT !.cb = ~env.cb], InitResults,
                       arg.element_type, arg.nb_items)
  ELSE run_with_specific_ids([env EXCEPT !.cb = ~env.cb], InitResults,
                             arg.element_type, arg.specific_ids)

\* C11: the progress callback has no effect on control flow: for the same
\* catalog and the same generation responses, a run with a callback and a run
\* without one issue the same sequence of fetch and generation calls and return
\* the same results.
C11_CallbackChangesNothing ==
  RunEnded =>
    /\ Twin.results = results
    /\ Twin.raised = raised
    /\ Calls(Twin.events) = Calls(events)

C11_Witness ==
  /\ RunEnded
  /\ env.cb
  /\ \E k \in 1..Len(events) : events[k].e = "callback"
  /\ \E k \in 1..Len(events) : events[k].e = "generate"
  /\ \E k \in 1..Len(events) : events[k].e = "get" /\ events[k].id = env.bad
  /\ results.metadata.items_rewritten > 0

\* the number of events of kind on the item id of resource
EventCount(kind, resource, id) ==
  Cardinality({k \in 1..Len(events) :
                 /\ events[k].e = kind
                 /\ events[k].resource = resource
                 /\ events[k].id = id})

\* the number of generation calls for a field of the item id of resource
GenerateCount(resource, id, field) ==
  Cardinality({k \in 1..Len(events) :
                 /\ events[k].e = "generate"
                 /\ events[k].resource = resource
                 /\ events[k].id = id
                 /\ events[k].field = field})

\* the number of times id is asked for: the times it stands in the identifier
\* list, or once per resource when the platform lists it
TimesAsked(id) ==
  IF arg.op = "run_with_specific_ids"
  THEN Cardinality({i \in 1..Len(arg.specific_ids) : arg.specific_ids[i] = id})
  ELSE 1

AllFieldKeys == FieldKeys \cup {"name", "additional_description"}

\* C12: no retries: within one run at most one detail fetch is made per listed
\* or requested identifier and at most one generation call per item and field,
\* whether the call succeeds or fails.
C12_NoRetry ==
  RunEnded =>
    \A r \in Resources : \A id \in 1..3 :
      /\ EventCount("get", r, id) <= TimesAsked(id)
      /\ EventCount("process_item", r, id) <= EventCount("get", r, id)
      /\ \A f \in AllFieldKeys :
           GenerateCount(r, id, f) <= EventCount("process_item", r, id)

C12_Witness ==
  /\ RunEnded
  /\ arg.op = "run_with_specific_ids"
  /\ arg.specific_ids = <<1, 3, 2>>
  /\ env.bad = 1
  /\ env.mode = "exc"
  /\ env.oracle = <<Failure>>
  /\ arg.element_type = "Catégories"
  /\ EventCount("get", "categories", 1) = 1
  /\ EventCount("get", "categories", 3) = 1
  /\ EventCount("process_item", "categories", 2) = 1
  /\ GenerateCount("categories", 2, "meta_title") = 1
  /\ ~results.categories[1].has_been_rewritten

\* the identifiers of the list whose request ends well, in the order of the list
FetchedIds(resource, ids) ==
  SelectSeq(ids, LAMBDA id : DetailOutcome(env, resource, id) = "ok")

\* the identifiers the events of kind bear, in the order of the events
IdsOf(kind) ==
  LET evs == SelectSeq(events, LAMBDA ev : ev.e = kind)
  IN  [k \in 1..Len(evs) |-> evs[k].id]

\* C13: in id-list mode a fetch that fails, by an exception or by an answer
\* other than 200, is skipped and does not abort the batch: every identifier is
\* fetched, and the items processed are those whose fetch succeeded, in the
\* order of the identifier list.
C13_FailedFetchSkipped ==
  (RunEnded /\ arg.op = "run_with_specific_ids") =>
    /\ IdsOf("get") = arg.specific_ids
    /\ ~raised =>
         IdsOf("process_item") = FetchedIds(ResourceOf(arg.element_type), arg.specific_ids)
    /\ raised =>
         \E n \in 1..Len(arg.specific_ids) :
           /\ n <= Len(FetchedIds(ResourceOf(arg.element_type), arg.specific_ids))
           /\ IdsOf("process_item") =
                SubSeq(FetchedIds(ResourceOf(arg.element_type), arg.specific_ids), 1, n)

C13_Witness ==
  /\ RunEnded
  /\ arg.op = "run_with_specific_ids"
  /\ arg.element_type = "Catégories"
  /\ arg.specific_ids = <<1, 3, 2>>
  /\ env.bad = 1
  /\ env.mode = "exc"
  /\ IdsOf("get") = <<1, 3, 2>>
  /\ IdsOf("process_item") = <<2>>
  /\ Len(results.categories) = 1

\* the values of a list
IdSet(l) == {l[i] : i \in 1..Len(l)}

\* the identifiers the valid tokens denote
Denoted(tokens) == UNION {tokens[i].ids : i \in {j \in 1..Len(tokens) : tokens[j].ok}}

\* the tokens in the order perm
Permuted(tokens, perm) == [i \in 1..Len(tokens) |-> tokens[perm[i]]]

ParseEnded == arg.op = "parse_id_input" /\ ret.done

\* C15: parse_id_input returns a duplicate-free list whose set of values is the
\* union of the identifiers the valid tokens denote, and the set is the same
\* for every permutation of the tokens and every insertion of spaces.
C15_ParsedSet ==
  ParseEnded =>
    /\ \A i, j \in 1..Len(ret.out.ids) : i # j => ret.out.ids[i] # ret.out.ids[j]
    /\ IdSet(ret.out.ids) = Denoted(arg.tokens)
    /\ \A perm \in Permutations(1..Len(arg.tokens)), spacing \in Spacings :
         Typed(arg.tokens, spacing) # <<>> =>
           IdSet(parse_id_input(Typed(Permuted(arg.tokens, perm), spacing)).ids)
             = IdSet(ret.out.ids)

C15_Witness ==
  /\ ParseEnded
  /\ arg.id_input = <<"4", "2", "4", "-", "4", "2", "6", ",", "4", "3", "0">>
  /\ ret.out.ids = <<430, 426, 424, 425>>

\* the parts the invalid tokens are, in the order of the text
InvalidParts(tokens) ==
  LET bad == SelectSeq(tokens, LAMBDA t : ~t.ok)
  IN  [i \in 1..Len(bad) |-> bad[i].text]

\* C16: for an identifier list with malformed tokens, a warning is emitted for
\* each offending token, which contributes no identifier, while every valid
\* token of the same input contributes its identifiers.
C16_MalformedTokensReported ==
  ParseEnded =>
    /\ [k \in 1..Len(ret.out.warnings) |-> ret.out.warnings[k].part]
         = InvalidParts(arg.tokens)
    /\ IdSet(ret.out.ids) = Denoted(arg.tokens)

C16_Witness ==
  /\ ParseEnded
  /\ arg.id_input = <<"1", "-", "a", ",", "4", "2", "4", "-", "4", "2", "6">>
  /\ ret.out.warnings = <<[message |-> "Format invalide", part |-> <<"1", "-", "a">>]>>
  /\ IdSet(ret.out.ids) = {424, 425, 426}

\* C14: in every state of the dashboard the "validated items only" export has
\* one {type, id, name, rewrites} entry for each validated item: its
\* validated_count is the number of ValidationRecords held and every
\* ValidationRecord has a matching entry.
C14_ExportHoldsEveryValidation ==
  ExportOffered(session) =>
    /\ ValidatedExport(session).validated_count = Len(session.validations)
    /\ \A k \in 1..Len(session.validations) :
         \E i \in 1..Len(ValidatedExport(session).items) :
           /\ ValidatedExport(session).items[i].type = session.validations[k].type
           /\ ValidatedExport(session).items[i].id = session.validations[k].id

\* the answer of the generation call as the paragraph step receives it
Cleaned == StripFences(Strip(arg.response.text))

\* the paragraph step has split the answer of a long-form field into more than
\* three sentences
LongAnswerWrapped ==
  /\ arg.op = "rewrite_content_with_seo"
  /\ ret.done
  /\ ~BelowFloor(arg.content)
  /\ arg.response.ok
  /\ arg.field_type \in {"Description courte", "Description"}
  /\ ~Contains(Cleaned, <<"<">>)
  /\ Len(Split(Cleaned, <<".", " ">>)) > 3

\* a sentence with its period
WithPeriod(sentence) ==
  IF EndsWith(sentence, <<".">>) THEN sentence ELSE sentence \o <<".">>

\* the b-th block of three sentences, the last one holding what remains
Block(sentences, b) ==
  LET first == 3 * (b - 1) + 1
      last == IF 3 * b < Len(sentences) THEN 3 * b ELSE Len(sentences)
  IN  <<"<", "p", ">">>
      \o Join([k \in 1..(last - first + 1) |-> WithPeriod(sentences[first + k - 1])],
              <<" ">>)
      \o <<"<", "/", "p", ">">>

\* C17: for a long-form field whose generated text has no markup and splits on
\* ". " into n > 3 sentences, the output is ceil(n/3) paragraph blocks, each of
\* 3 consecutive sentences in their order but the last, which holds the 1 to 3
\* that remain; 7 sentences give 3 blocks of 3, 3 and 1.
C17_ParagraphBlocks ==
  LongAnswerWrapped =>
    LET sentences == Split(Cleaned, <<".", " ">>)
        blocks == (Len(sentences) + 2) \div 3
    IN  /\ CountFrom(ret.out.content, <<"<", "p", ">">>, 1) = blocks
        /\ CountFrom(ret.out.content, <<"<", "/", "p", ">">>, 1) = blocks
        /\ ret.out.content = Join([b \in 1..blocks |-> Block(sentences, b)], <<"\n">>)

C17_Witness ==
  /\ LongAnswerWrapped
  /\ arg.response.text = SentenceText(7, FALSE)
  /\ CountFrom(ret.out.content, <<"<", "p", ">">>, 1) = 3
  /\ ret.out.content =
       <<"<", "p", ">", "S", "1", ".", " ", "S", "2", ".", " ", "S", "3", ".",
         "<", "/", "p", ">", "\n",
         "<", "p", ">", "S", "4", ".", " ", "S", "5", ".", " ", "S", "6", ".",
         "<", "/", "p", ">", "\n",
         "<", "p", ">", "S", "7", ".", "<", "/", "p", ">">>

\* the number of lines of a text that hold the fence
FenceLineCount(text) ==
  LET lines == Split(text, <<"\n">>)
  IN  Cardinality({i \in 1..Len(lines) : Contains(lines[i], Fence)})

\* C18: fence stripping is idempotent: applied to its own output it returns
\* that output, for every generated text, those with an odd number of fence
\* lines included.
C18_FenceStrippingIdempotent ==
  (arg.op = "strip_fences" /\ ret.applied = 2) =>
    /\ ret.twice = ret.once
    /\ ~Contains(ret.once, Fence)

C18_Witness ==
  /\ arg.op = "strip_fences"
  /\ ret.applied = 2
  /\ FenceLineCount(arg.text) = 3
  /\ ret.once = <<"a", "b">>
  /\ ret.once # arg.text
  /\ ret.twice = ret.once

\* the identifiers the events of kind on resource bear, in the order of the events
IdsOn(kind, resource) ==
  LET evs == SelectSeq(events, LAMBDA ev : ev.e = kind /\ ev.resource = resource)
  IN  [k \in 1..Len(evs) |-> evs[k].id]

\* every identifier of the catalog of resource, in the order of its list answer
CatalogIds(resource) == [i \in 1..Len(Catalog[resource]) |-> Catalog[resource][i].id]

\* ids up to and including the first one whose detail request raises
RECURSIVE UntilRaise(_, _, _)
UntilRaise(resource, ids, i) ==
  IF i > Len(ids) THEN ids
  ELSE IF DetailOutcome(env, resource, ids[i]) = "exc" THEN SubSeq(ids, 1, i)
  ELSE UntilRaise(resource, ids, i + 1)

\* the list of resource was asked for
Listed(resource) == \E k \in 1..Len(events) : events[k].e = "list" /\ events[k].resource = resource

\* a by-count run with count 0 has ended
ZeroCountRunEnded == RunEnded /\ arg.op = "run_with_params" /\ arg.nb_items = 0

\* C19: the by-count driver called with count 0 processes the full catalog of
\* the selected type: no limit parameter goes to the list call and the
\* identifiers it answers are not truncated.
C19_ZeroCountIsNoLimit ==
  ZeroCountRunEnded =>
    /\ \A k \in 1..Len(events) : events[k].e = "list" => events[k].limit = 0
    /\ \A r \in ChoiceOf(arg.element_type) :
         /\ (Listed(r) /\ env.list = "ok") =>
              IdsOn("get", r) = UntilRaise(r, CatalogIds(r), 1)
         /\ (env.list = "ok" /\ env.bad = 0 /\ ~raised) =>
              /\ IdsOn("process_item", r) = CatalogIds(r)
              /\ Len(results[r]) = Len(Catalog[r])
              /\ \A i \in 1..Len(Catalog[r]) : results[r][i].id = Catalog[r][i].id

C19_Witness ==
  /\ ZeroCountRunEnded
  /\ arg.element_type = "Produits"
  /\ env.list = "ok"
  /\ env.bad = 0
  /\ ~raised
  /\ Len(Catalog.products) > 1
  /\ IdsOn("process_item", "products") = CatalogIds("products")
  /\ Len(results.products) = Len(Catalog.products)
  /\ \E k \in 1..Len(events) : events[k].e = "list" /\ events[k].limit = 0

\* the field mapping the batch driver passes for an item type
DriverFields(item_type) ==
  CASE item_type = "product" -> ProductFields
    [] item_type = "category" -> CategoryFields
    [] item_type = "manufacturer" -> ManufacturerFields

\* an item has been processed with the field mapping the batch driver passes
\* for its type
DriverItemProcessed ==
  /\ arg.op = "process_item"
  /\ ret.done
  /\ arg.fields = DriverFields(arg.item_type)

\* the target length the message m of a generation call carries
TargetSent(m) == m[ChunkIndex(m, "LONGUEUR CIBLE : ") + 1]

\* C20: for the three item types of the batch driver the prompt of the
\* meta-title field carries the target 50-60 characters and that of the
\* meta-description field 140-150 characters (100-120 when a price prefix was
\* extracted); the default 100-200 words is carried only for fields that are
\* neither short description, description, meta description nor meta title.
C20_TargetLengthByField ==
  DriverItemProcessed =>
    \A k \in 1..Len(ret.out.calls) :
      LET call == ret.out.calls[k]
      IN  /\ call.field = "meta_title" => TargetSent(call.message) = "50-60 caractères"
          /\ call.field = "meta_description" =>
               TargetSent(call.message) =
                 (IF PriceMatch(call.content) # <<>> THEN "100-120 caractères"
                  ELSE "140-150 caractères")
          /\ TargetSent(call.message) = "100-200 mots" =>
               call.field \notin {"description_short", "short_description", "description",
                                  "meta_description", "meta_title"}

\* the k-th generation call of the item processed answered a text without markup
PlainAnswer(k) ==
  /\ ResponseAt(arg.oracle, k).ok
  /\ ~Contains(StripFences(Strip(ResponseAt(arg.oracle, k).text)), <<"<">>)

\* the content returned for the call is the answer text inside paragraph markup:
\* one paragraph when the text has three sentences or fewer
InParagraphs(content, text) ==
  /\ StartsWith(content, <<"<", "p", ">">>)
  /\ EndsWith(content, <<"<", "/", "p", ">">>)
  /\ Len(Split(text, <<".", " ">>)) <= 3 =>
       content = <<"<", "p", ">">> \o text \o <<"<", "/", "p", ">">>

\* C21: for every item type of the batch driver, when the generated text of a
\* short-description or description field holds no markup, the rewritten
\* content is wrapped in paragraph markup, <p> + text + </p> when the text has
\* three sentences or fewer.
C21_LongFormFieldsInParagraphs ==
  DriverItemProcessed =>
    \A k \in 1..Len(ret.out.calls) :
      (/\ ret.out.calls[k].field \in {"description_short", "short_description", "description"}
       /\ PlainAnswer(k)) =>
        InParagraphs(ret.out.calls[k].returned.content,
                     StripFences(Strip(ResponseAt(arg.oracle, k).text)))

\* the rewrite step has returned the stats of a successful rewrite
RewriteSucceeded ==
  /\ arg.op = "rewrite_content_with_seo"
  /\ ret.done
  /\ ~BelowFloor(arg.content)
  /\ arg.response.ok

\* C22: for every successful rewrite, original_word_count is the
\* whitespace-delimited word count of the original field content and
\* original_length its character count, the price prefix included when one was
\* extracted; new_word_count and new_length are the same measures of the
\* rewritten content returned.
C22_StatsMeasureOriginalAndRewritten ==
  RewriteSucceeded =>
    /\ ret.out.stats.original_word_count = WordCount(arg.content)
    /\ ret.out.stats.original_length = Len(arg.content)
    /\ ret.out.stats.new_word_count = WordCount(ret.out.content)
    /\ ret.out.stats.new_length = Len(ret.out.content)

\* process_item has returned an ItemResult
ItemReturned == arg.op = "process_item" /\ ret.done /\ ~ret.out.raised

\* C23: process_item keeps a FieldRewriteRecord for a field if and only if the
\* content the rewrite step returned differs from the original content of the
\* field: every record has rewritten_content different from original_content,
\* and a returned content equal to the original leaves no record.
C23_RecordIffContentDiffers ==
  ItemReturned =>
    /\ \A j \in 1..Len(ret.out.result.rewrites) :
         /\ ret.out.result.rewrites[j].rewritten_content
              # ret.out.result.rewrites[j].original_content
         /\ \E k \in 1..Len(ret.out.calls) :
              /\ ret.out.calls[k].field = ret.out.result.rewrites[j].field
              /\ ret.out.calls[k].content = ret.out.result.rewrites[j].original_content
              /\ ret.out.calls[k].returned.content
                   = ret.out.result.rewrites[j].rewritten_content
    /\ \A k \in 1..Len(ret.out.calls) :
         (ret.out.calls[k].returned.content # ret.out.calls[k].content)
           <=> (ret.out.calls[k].field \in RewrittenFields(ret.out.result))

C23_Witness ==
  /\ ItemReturned
  /\ arg.item_type = "product"
  /\ arg.fields = ProductFields
  /\ arg.oracle = <<Answer(TxtFactuel)>>
  /\ Len(ret.out.calls) = 1
  /\ ret.out.calls[1].field = "meta_title"
  /\ ret.out.calls[1].content = TxtFactuel
  /\ ret.out.calls[1].returned.content = TxtFactuel
  /\ ret.out.calls[1].returned.stats # EmptyDict
  /\ ret.out.result.rewrites = <<>>
  /\ ~ret.out.result.has_been_rewritten

\* the text the message m carries under its content heading: what stands
\* between the heading and the next fixed text of the prompt
PromptContent(m) ==
  LET c == ChunkIndex(m, ContentHeading)
      next == CHOOSE i \in (c + 1)..Len(m) :
                /\ m[i] \in {BrandInstruction, PriceInstructionHead, MissionHeading}
                /\ \A j \in (c + 1)..(i - 1) :
                     m[j] \notin {BrandInstruction, PriceInstructionHead, MissionHeading}
  IN  SubSeq(m, c + 1, next - 1)

\* C24: the generation API is never called with an empty text to rewrite:
\* whenever the rewrite step issues a generation call, the content put in the
\* prompt after the extraction of the price prefix has a trimmed length of at
\* least 10 characters, a Meta description made of a price prefix alone included.
C24_NoCallOnEmptyContent ==
  (arg.op = "rewrite_content_with_seo" /\ ret.done) =>
    \A k \in 1..Len(ret.out.sent) :
      Len(Strip(PromptContent(ret.out.sent[k]))) >= 10

\* C25: after any sequence of runs on one rewriter, each of the counters
\* total_products_analyzed, total_categories_analyzed and
\* total_manufacturers_analyzed is the number of ItemResults held in the
\* collection of its resource.
C25_CountersMatchCollections ==
  \A r \in Resources : results.metadata[CounterOf(r)] = Len(results[r])

\* C26: in every state of the dashboard the number of ValidationRecords held
\* does not exceed metadata.items_rewritten of the results held, so that the
\* validation rate shown never exceeds 100%.
C26_ValidationsWithinRewritten ==
  session.results # <<>> =>
    Len(session.validations) <= session.results[1].metadata.items_rewritten

\* the place of field in the field mapping
FieldPlace(fields, field) == CHOOSE i \in 1..Len(fields) : fields[i][1] = field

\* C27: every ItemResult process_item returns has fields_rewritten equal to the
\* number of its records and has_been_rewritten true exactly when it has a
\* record; the records stand in the order of the field mapping, at most one per
\* field.
C27_ItemResultCoherent ==
  ItemReturned =>
    LET result == ret.out.result
    IN  /\ result.seo_stats.fields_rewritten = Len(result.rewrites)
        /\ result.has_been_rewritten <=> (result.rewrites # <<>>)
        /\ \A j \in 1..Len(result.rewrites) :
             \E i \in 1..Len(arg.fields) : arg.fields[i][1] = result.rewrites[j].field
        /\ \A i, j \in 1..Len(result.rewrites) :
             i < j => FieldPlace(arg.fields, result.rewrites[i].field)
                        < FieldPlace(arg.fields, result.rewrites[j].field)

C27_Witness ==
  /\ ItemReturned
  /\ arg.item_type = "category"
  /\ arg.fields = CategoryFields
  /\ Len(ret.out.result.rewrites) = 2
  /\ ret.out.result.rewrites[1].field = "name"
  /\ ret.out.result.rewrites[2].field = "description"
  /\ ret.out.result.seo_stats.fields_rewritten = 2
  /\ ret.out.result.has_been_rewritten

\* C28: in the dashboard the rewriter is invoked only in a state where
\* authenticated and processing are both true, no run is launched while
\* processing is true, and after every launch processing eventually returns to
\* false, whether the run returns results, the API keys are missing or the run
\* raises.
C28_ProcessingEnds ==
  /\ [][runs' # runs => session.authenticated /\ session.processing]_vars
  /\ [][arg'.op = "launch" => ~session.processing /\ session'.processing]_vars
  /\ session.processing ~> ~session.processing

\* the run fell back to products: its element type is none of those the driver
\* called maps to another choice
FellBack ==
  /\ RunEnded
  /\ \/ arg.op = "run_with_params"
        /\ arg.element_type \notin {"Produits", "Catégories", "Marques", "Tout"}
     \/ arg.op = "run_with_specific_ids"
        /\ arg.element_type \notin {"Produits", "Catégories", "Marques"}

\* what the same call gives for the element type Produits on a fresh rewriter
AsProducts ==
  IF arg.op = "run_with_params"
  THEN run_with_params(env, InitResults, "Produits", arg.nb_items)
  ELSE run_with_specific_ids(env, InitResults, "Produits", arg.specific_ids)

\* C29: the batch driver falls back to products for an element type it does not
\* support: by count any type other than Produits, Catégories, Marques and Tout,
\* and in id-list mode any type other than Catégories and Marques, Tout included,
\* processes products only and leaves the categories and manufacturers
\* collections as they were.
C29_FallbackToProducts ==
  FellBack =>
    /\ \A k \in 1..Len(events) :
         events[k].e \in {"list", "get", "process_item", "generate"}
           => events[k].resource = "products"
    /\ results.categories = InitResults.categories
    /\ results.manufacturers = InitResults.manufacturers
    /\ results.metadata.total_categories_analyzed = 0
    /\ results.metadata.total_manufacturers_analyzed = 0
    /\ results = AsProducts.results
    /\ events = AsProducts.events
    /\ raised = AsProducts.raised

C29_Witness ==
  /\ FellBack
  /\ arg.op = "run_with_specific_ids"
  /\ arg.element_type = "Tout"
  /\ arg.specific_ids = <<2, 1>>
  /\ ~raised
  /\ IdsOn("get", "products") = <<2, 1>>
  /\ Len(results.products) = 2
  /\ results.products[1].id = 2
  /\ results.categories = <<>>
  /\ results.manufacturers = <<>>

\* C30: the errors sequence of the results aggregate is empty in every
\* reachable state: no run appends to it, whatever fetch or generation fails,
\* and the counter seo_improvements stays 0.
C30_ErrorsNeverWritten ==
  /\ results.errors = <<>>
  /\ results.metadata.seo_improvements = 0

C30_Witness ==
  /\ runs = 2
  /\ ret.done
  /\ arg.op = "run_with_specific_ids"
  /\ arg.element_type = "Produits"
  /\ arg.specific_ids = <<2, 1>>
  /\ env.bad = 2
  /\ env.oracle[1] = Failure
  /\ IdsOn("get", "products") = <<2, 1>>
  /\ IdsOn("process_item", "products") = <<1>>
  /\ IdsOn("generate", "products") # <<>>
  /\ results.products # <<>>
  /\ results.errors = <<>>
  /\ results.metadata.seo_improvements = 0

====
